---- MODULE Spec2Model ----
(***************************************************************************)
(* A model of the numeric steps of dda_atmos (density-dimension algorithm  *)
(* for lidar profiles): masked convolution, threshold estimation, mask     *)
(* combination, ground-bin detection and noise infill, and of the two-pass *)
(* pipelines of algorithms.py that thread them together.                    *)
(*                                                                          *)
(* Arrays are 0-indexed functions, as in the source: a (n,m) array is a     *)
(* function [0..n-1 -> [0..m-1 -> value]].  Real values are exact           *)
(* fractions [n |-> numerator, d |-> denominator] in lowest terms with      *)
(* d > 0; NaN is the fraction with d = 0.                                   *)
(***************************************************************************)
EXTENDS Integers, Sequences, FiniteSets, TLC

VARIABLES
    pc,     \* "call": the function is about to run; "return"; "raise"
    args,   \* the caller's arguments (arrays the caller owns)
    ret,    \* what the caller holds of the calls made: their return values
    rng     \* the process's random sources: the draws made so far from numpy's
            \* global generator

vars == <<pc, args, ret, rng>>

NoValue == [none |-> TRUE]

(***************************************************************************)
(* Bounds of the model.                                                     *)
(***************************************************************************)
MaxPix == 4       \* largest number of pixels of a data matrix
MaxVal == 1       \* largest intensity value of a pixel
MaxBins == 3      \* largest number of height bins times profiles in ground detection
MaxDraws == 1     \* most draws other code makes from the global generator

(***************************************************************************)
(* Exact arithmetic.                                                        *)
(***************************************************************************)
Abs(x) == IF x < 0 THEN -x ELSE x

RECURSIVE GCD(_, _)
GCD(a, b) == IF b = 0 THEN a ELSE GCD(b, a % b)

NaN == [n |-> 0, d |-> 0]

\* n/d in lowest terms, d /= 0
Frac(n, d) ==
    LET g == GCD(Abs(n), Abs(d))
        s == IF d < 0 THEN -1 ELSE 1
    IN [n |-> s * (n \div g), d |-> s * (d \div g)]

Real(i) == [n |-> i, d |-> 1]
IsNaN(x) == x.d = 0
\* IEEE comparison: false when either side is NaN
FracLeq(x, y) == ~IsNaN(x) /\ ~IsNaN(y) /\ x.n * y.d <= y.n * x.d
FracLt(x, y) == ~IsNaN(x) /\ ~IsNaN(y) /\ x.n * y.d < y.n * x.d

FracAdd(x, y) ==
    IF IsNaN(x) \/ IsNaN(y) THEN NaN ELSE Frac(x.n * y.d + y.n * x.d, x.d * y.d)
FracMul(x, y) ==
    IF IsNaN(x) \/ IsNaN(y) THEN NaN ELSE Frac(x.n * y.n, x.d * y.d)
FracSub(x, y) == FracAdd(x, FracMul(Real(-1), y))

Min(a, b) == IF a < b THEN a ELSE b
Max(a, b) == IF a > b THEN a ELSE b

RECURSIVE SumOver(_, _)
\* the sum of f[x] over the finite set S
SumOver(S, f) ==
    IF S = {} THEN 0
    ELSE LET x == CHOOSE y \in S : TRUE
         IN f[x] + SumOver(S \ {x}, f)

(***************************************************************************)
(* Arrays.                                                                  *)
(***************************************************************************)
Rows(a) == Cardinality(DOMAIN a)
Cols(a) == Cardinality(DOMAIN a[0])
Array(n, m, V) == [0..(n - 1) -> [0..(m - 1) -> V]]
Pixels(a) == (0..(Rows(a) - 1)) \X (0..(Cols(a) - 1))
\* a 2-D array literal from a sequence of sequences
Arr(rows) ==
    [i \in 0..(Len(rows) - 1) |-> [j \in 0..(Len(rows[i + 1]) - 1) |-> rows[i + 1][j + 1]]]

Shapes == {s \in (1..MaxPix) \X (1..MaxPix) : s[1] * s[2] <= MaxPix}

(***************************************************************************)
(* scipy.signal.convolve2d(in1, in2, mode='same', boundary, fillvalue),    *)
(* as called by convolve_masked.                                            *)
(***************************************************************************)
\* boundary='symm': the index reflected about the array edges
ReflectSymmIndex(j, m) ==
    LET k == IF j >= 0 THEN j % (2 * m) ELSE Abs(j + 1) % (2 * m)
    IN IF k >= m THEN 2 * m - k - 1 ELSE k

\* boundary='wrap': the index taken modulo the array length
CircularWrapIndex(j, m) == j % m

\* the input value the kernel sees at (r, c), inside or outside the array
PaddedValue(in1, r, c, boundary, fillvalue) ==
    LET n == Rows(in1)
        m == Cols(in1)
        inside == r \in 0..(n - 1) /\ c \in 0..(m - 1)
    IN IF inside THEN in1[r][c]
       ELSE IF boundary = "symm"
            THEN in1[ReflectSymmIndex(r, n)][ReflectSymmIndex(c, m)]
       ELSE IF boundary = "wrap"
            THEN in1[CircularWrapIndex(r, n)][CircularWrapIndex(c, m)]
       ELSE fillvalue

\* out[i][j] = sum over the kernel of in1[i + (nk-1)>>1 - a][j + (mk-1)>>1 - b] * in2[a][b]
ScipyConvolve2d(in1, in2, convargs) ==
    LET nk == Rows(in2)
        mk == Cols(in2)
        fv == IF "fillvalue" \in DOMAIN convargs THEN convargs["fillvalue"] ELSE 0
        term(i, j) ==
            [p \in Pixels(in2) |->
                in2[p[1]][p[2]]
                * PaddedValue(in1, i + ((nk - 1) \div 2) - p[1],
                              j + ((mk - 1) \div 2) - p[2],
                              convargs["boundary"], fv)]
    IN [i \in DOMAIN in1 |-> [j \in DOMAIN in1[0] |-> SumOver(Pixels(in2), term(i, j))]]

(***************************************************************************)
(* steps/calc_density.py                                                    *)
(***************************************************************************)
DefaultConvargs == [mode |-> "same", boundary |-> "symm"]

\* the default convargs overridden by the recognised keyword arguments
Convargs(kwargs) ==
    LET given == DOMAIN kwargs \cap {"mode", "boundary", "fillvalue"}
    IN [k \in DOMAIN DefaultConvargs \cup given |->
            IF k \in given THEN kwargs[k] ELSE DefaultConvargs[k]]

\* masked_data = data.copy(); masked_data[mask] = 0
MaskedData(data, mask) ==
    [i \in DOMAIN data |-> [j \in DOMAIN data[0] |-> IF mask[i][j] THEN 0 ELSE data[i][j]]]

\* NotMask without the negation: the weight field built from the mask itself
NotMask_unnegated(mask) ==
    [i \in DOMAIN mask |-> [j \in DOMAIN mask[0] |-> IF mask[i][j] THEN 1 ELSE 0]]

\* ~mask, as the numbers 1 (valid) and 0 (masked)
NotMask(mask) ==
    [i \in DOMAIN mask |-> [j \in DOMAIN mask[0] |-> IF mask[i][j] THEN 0 ELSE 1]]

\* density[norm>0] = density[norm>0] / norm[norm>0]
Normalise(density, norm) ==
    [i \in DOMAIN density |-> [j \in DOMAIN density[0] |->
        IF norm[i][j] > 0 THEN Frac(density[i][j], norm[i][j])
        ELSE Real(density[i][j])]]

\* convolve_masked convolving data as it is, the masked values not set to 0
convolve_masked_unzeroed(data, mask, kernal, kwargs) ==
    LET convargs == Convargs(kwargs)
        norm == ScipyConvolve2d(NotMask(mask), kernal, convargs)
        density == ScipyConvolve2d(data, kernal, convargs)
    IN Normalise(density, norm)

convolve_masked(data, mask, kernal, kwargs) ==
    LET convargs == Convargs(kwargs)
        norm == ScipyConvolve2d(NotMask(mask), kernal, convargs)
        density == ScipyConvolve2d(MaskedData(data, mask), kernal, convargs)
    IN Normalise(density, norm)

\* calc_density(data, data_mask, kernal, density_args): the density stage
CalcDensity ==
    /\ pc = "call"
    /\ args.fn = "calc_density"
    /\ ret' = [density |-> convolve_masked(args.data, args.data_mask, args.kernal,
                                           args.density_args)]
    /\ pc' = "return"
    /\ UNCHANGED <<args, rng>>

\* the kernels the density stage is called with
Kernels ==
    { Arr(<< <<1>> >>), Arr(<< <<1, 2>> >>), Arr(<< <<2>>, <<1>> >>),
      Arr(<< <<1, 0, 1>> >>), Arr(<< <<1, 1>>, <<0, 1>> >>),
      Arr(<< <<1>>, <<2>>, <<1>> >>), Arr(<< <<1, -1>> >>) }

EmptyKwargs == [k \in {} |-> 0]

DensityArgs ==
    { EmptyKwargs, [boundary |-> "symm"], [boundary |-> "wrap"],
      [boundary |-> "fill"], [boundary |-> "fill", fillvalue |-> 1] }

\* a pixel is valid with a value, or masked; what lies under the mask is MaxVal
Cells == [v : 0..MaxVal, masked : {FALSE}] \cup {[v |-> MaxVal, masked |-> TRUE]}

DensityCall(c, k, kw) ==
    [fn |-> "calc_density",
     data |-> [i \in DOMAIN c |-> [j \in DOMAIN c[0] |-> c[i][j].v]],
     data_mask |-> [i \in DOMAIN c |-> [j \in DOMAIN c[0] |-> c[i][j].masked]],
     kernal |-> k,
     density_args |-> kw]

DensityInit ==
    /\ pc = "call"
    /\ \E s \in Shapes : \E c \in Array(s[1], s[2], Cells), k \in Kernels, kw \in DensityArgs :
            args = DensityCall(c, k, kw)
    /\ ret = NoValue
    /\ rng = NoValue

DensityNext == CalcDensity

DensitySpec == DensityInit /\ [][DensityNext]_vars

(***************************************************************************)
(* steps/calc_threshold.py                                                  *)
(***************************************************************************)
\* the values of a[rows, cols] as a sequence, rows and cols sequences of indices
RECURSIVE Flatten(_, _, _)
Flatten(a, rows, cols) ==
    IF rows = <<>> THEN <<>>
    ELSE [k \in 1..Len(cols) |-> a[Head(rows)][cols[k]]] \o Flatten(a, Tail(rows), cols)

\* the indices of range(lo, hi, step), step > 0
RECURSIVE Range(_, _, _)
Range(lo, hi, step) == IF lo >= hi THEN <<>> ELSE <<lo>> \o Range(lo + step, hi, step)

\* the sequence without its NaN entries
RECURSIVE DropNaN(_)
DropNaN(v) ==
    IF v = <<>> THEN <<>>
    ELSE IF IsNaN(Head(v)) THEN DropNaN(Tail(v)) ELSE <<Head(v)>> \o DropNaN(Tail(v))

\* the sequence with its k-th entry removed
RemoveAt(v, k) == [i \in 1..(Len(v) - 1) |-> IF i < k THEN v[i] ELSE v[i + 1]]

\* the finite values in ascending order
RECURSIVE Sorted(_)
Sorted(v) ==
    IF v = <<>> THEN <<>>
    ELSE LET k == CHOOSE i \in 1..Len(v) : \A j \in 1..Len(v) : FracLeq(v[i], v[j])
         IN <<v[k]>> \o Sorted(RemoveAt(v, k))

\* np.nanmax: the largest non-NaN value, NaN when every value is NaN
NanMax(v) ==
    LET w == Sorted(DropNaN(v))
    IN IF w = <<>> THEN NaN ELSE w[Len(w)]

\* NanQuantile reading the order statistics from the values as they lie, unsorted
NanQuantile_unsorted(v, quantile) ==
    LET w == DropNaN(v)
        h == quantile * (Len(w) - 1)
        lo == h \div 100
        part == Frac(h % 100, 100)
    IN IF w = <<>> THEN NaN
       ELSE IF h % 100 = 0 THEN w[lo + 1]
       ELSE FracAdd(w[lo + 1], FracMul(part, FracSub(w[lo + 2], w[lo + 1])))

\* np.nanquantile(v, quantile/100), linear interpolation between the order
\* statistics; NaN when every value is NaN
NanQuantile(v, quantile) ==
    LET w == Sorted(DropNaN(v))
        h == quantile * (Len(w) - 1)          \* 100 times the virtual index
        lo == h \div 100
        part == Frac(h % 100, 100)
    IN IF w = <<>> THEN NaN
       ELSE IF h % 100 = 0 THEN w[lo + 1]
       ELSE FracAdd(w[lo + 1], FracMul(part, FracSub(w[lo + 2], w[lo + 1])))

\* lines 46-57: each pixel becomes the nanmax of density[ileft:iright, ibot:itop]
Downsampled(density, downsample) ==
    LET n_prof == Rows(density)
        n_vert == Cols(density)
    IN IF downsample > 0
       THEN [xx \in DOMAIN density |-> [yy \in DOMAIN density[0] |->
                LET ileft == Max(0, xx - downsample)
                    iright == Min(n_prof, xx + downsample)
                    ibot == Max(0, yy - downsample)
                    itop == Min(n_vert, yy + downsample)
                IN NanMax(Flatten(density, Range(ileft, iright, 1), Range(ibot, itop, 1)))]]
       ELSE density

\* line 62: downsample_matrix[data_mask] = np.nan
MaskedToNaN(matrix, data_mask) ==
    [xx \in DOMAIN matrix |-> [yy \in DOMAIN matrix[0] |->
        IF data_mask[xx][yy] THEN NaN ELSE matrix[xx][yy]]]

\* the matrix the quantiles are taken from (lines 43-62)
DownsampleMatrix(density, mask_given, data_mask, downsample) ==
    IF mask_given THEN MaskedToNaN(Downsampled(density, downsample), data_mask)
    ELSE Downsampled(density, downsample)

\* np.max(0, axis) and np.min(x, axis) reduce a 0-d array along `axis`: numpy
\* lets axis 0 and -1 pass for a scalar and raises AxisError for any other
ScalarAxisOk(axis) == axis \in {0, -1}

XLeft(xx, kw) == xx - kw.segment_length * (2 * kw.downsample + 1)
XRight(xx, kw) == xx + kw.segment_length * (2 * kw.downsample + 1)
WindowPastEdge(xx, n_prof, kw) == XLeft(xx, kw) < 0 \/ XRight(xx, kw) > n_prof - 1

\* lines 70-72 raise for profile xx
WindowRaises(xx, n_prof, kw) ==
    /\ WindowPastEdge(xx, n_prof, kw)
    /\ ~(ScalarAxisOk(XLeft(xx, kw)) /\ ScalarAxisOk(n_prof - 1))

\* lines 67-74: the rows of downsample_matrix[xleft:xright+1:delta, :]
WindowRows(xx, n_prof, kw) ==
    LET delta == 2 * kw.downsample + 1
        past == WindowPastEdge(xx, n_prof, kw)
        xleft == IF past THEN 0 ELSE XLeft(xx, kw)     \* np.max(0, axis) is 0
        xright == XRight(xx, kw)                       \* np.min(xright, axis) is xright
    IN Range(xleft, Min(xright + 1, n_prof), delta)

\* lines 76-77
Thresholds(matrix, kw) ==
    [xx \in DOMAIN matrix |->
        FracAdd(Real(kw.bias),
                FracMul(Real(kw.sensitivity),
                        NanQuantile(Flatten(matrix, WindowRows(xx, Rows(matrix), kw),
                                            Range(0, Cols(matrix), 1)),
                                    kw.quantile)))]

\* the caller's density array after lines 43-62: line 62 writes into it when
\* no downsampling made a copy
DensityAfterCall(density, mask_given, data_mask, kw) ==
    IF kw.downsample > 0 \/ ~mask_given THEN density
    ELSE MaskedToNaN(density, data_mask)

\* the keyword arguments calc_threshold is called with
Quantiles == {0, 50, 90}
ThresholdArgs ==
    [downsample : {0, 1}, segment_length : {0, 1}, bias : {1},
     sensitivity : {-1, 2}, quantile : Quantiles]

\* a pixel of the density field: its value, and whether data_mask flags it
ThresholdCells == [v : {Real(0), Real(MaxVal)}, masked : {TRUE}] \cup
                  [v : {Real(i) : i \in 0..MaxVal}, masked : {FALSE}]

ThresholdCall(c, g) ==
    [fn |-> "calc_threshold",
     density |-> [i \in DOMAIN c |-> [j \in DOMAIN c[0] |-> c[i][j].v]],
     mask_given |-> g,      \* FALSE: data_mask is None
     data_mask |-> [i \in DOMAIN c |-> [j \in DOMAIN c[0] |-> c[i][j].masked]],
     threshold_args |-> NoValue]

\* calc_threshold(density, data_mask, downsample, segment_length, bias,
\* sensitivity, quantile), the keyword arguments chosen by the caller
CalcThreshold ==
    /\ pc = "call"
    /\ args.fn = "calc_threshold"
    /\ \E kw \in ThresholdArgs :
        LET n_prof == Rows(args.density)
            matrix == DownsampleMatrix(args.density, args.mask_given, args.data_mask,
                                       kw.downsample)
        IN /\ args' = [args EXCEPT
                          !.density = DensityAfterCall(args.density, args.mask_given,
                                                       args.data_mask, kw),
                          !.threshold_args = kw]
           /\ IF \E xx \in 0..(n_prof - 1) : WindowRaises(xx, n_prof, kw)
              THEN pc' = "raise" /\ ret' = [error |-> "AxisError"]
              ELSE pc' = "return" /\ ret' = [thresholds |-> Thresholds(matrix, kw)]
    /\ UNCHANGED rng

\* the caller calls again on the same arrays with another quantile
CalcThresholdAgain ==
    /\ pc = "return"
    /\ args.fn = "calc_threshold"
    /\ \E q \in Quantiles :
        LET kw == [args.threshold_args EXCEPT !.quantile = q]
            matrix == DownsampleMatrix(args.density, args.mask_given, args.data_mask,
                                       kw.downsample)
        IN /\ q > args.threshold_args.quantile
           /\ args' = [args EXCEPT
                          !.density = DensityAfterCall(args.density, args.mask_given,
                                                       args.data_mask, kw),
                          !.threshold_args = kw]
           /\ pc' = "return"
           /\ ret' = [thresholds |-> Thresholds(matrix, kw),
                      earlier |-> ret.thresholds,
                      earlier_quantile |-> args.threshold_args.quantile]
    /\ UNCHANGED rng

ThresholdInit ==
    /\ pc = "call"
    /\ \E s \in Shapes : \E c \in Array(s[1], s[2], ThresholdCells), g \in BOOLEAN :
          /\ g \/ \A p \in (0..(s[1] - 1)) \X (0..(s[2] - 1)) : ~c[p[1]][p[2]].masked
          /\ args = ThresholdCall(c, g)
    /\ ret = NoValue
    /\ rng = NoValue

ThresholdNext == CalcThreshold \/ CalcThresholdAgain

ThresholdSpec == ThresholdInit /\ [][ThresholdNext]_vars

(***************************************************************************)
(* steps/combine_masks.py                                                   *)
(***************************************************************************)
\* pixels that share an edge (skimage's default connectivity, 1)
Adjacent(p, q) == Abs(p[1] - q[1]) + Abs(p[2] - q[2]) = 1

\* the connected set of true pixels of `mask` grown from the set S
RECURSIVE Grow(_, _)
Grow(mask, S) ==
    LET N == S \cup {q \in Pixels(mask) :
                        mask[q[1]][q[2]] /\ \E r \in S : Adjacent(q, r)}
    IN IF N = S THEN S ELSE Grow(mask, N)

\* the connected component of the true pixel p
Component(mask, p) == Grow(mask, {p})

\* skimage.morphology.remove_small_objects(ar, min_size): the components with
\* fewer than min_size pixels are cleared
remove_small_objects(ar, min_size) ==
    [i \in DOMAIN ar |-> [j \in DOMAIN ar[0] |->
        ar[i][j] /\ ~(Cardinality(Component(ar, <<i, j>>)) < min_size)]]

\* lines 28-30 folding the masks with logical_and in place of logical_or
LogicalOrAll_and(masks) ==
    [i \in DOMAIN masks[1] |-> [j \in DOMAIN masks[1][0] |->
        \A k \in 1..Len(masks) : masks[k][i][j]]]

\* lines 28-30: zeros_like(masks[0]) or-ed with every mask
LogicalOrAll(masks) ==
    [i \in DOMAIN masks[1] |-> [j \in DOMAIN masks[1][0] |->
        FALSE \/ \E k \in 1..Len(masks) : masks[k][i][j]]]

\* combine_masks clearing the components of up to remove_small_clusters pixels
combine_masks_inclusive(masks, remove_small_clusters) ==
    IF remove_small_clusters > 0
    THEN remove_small_objects(LogicalOrAll(masks), remove_small_clusters + 1)
    ELSE LogicalOrAll(masks)

combine_masks(masks, remove_small_clusters) ==
    IF remove_small_clusters > 0
    THEN remove_small_objects(LogicalOrAll(masks), remove_small_clusters)
    ELSE LogicalOrAll(masks)

\* combine_masks(masks, remove_small_clusters)
CombineMasks ==
    /\ pc = "call"
    /\ args.fn = "combine_masks"
    /\ ret' = [combined_mask |-> combine_masks(args.masks, args.remove_small_clusters)]
    /\ pc' = "return"
    /\ UNCHANGED <<args, rng>>

CombineCall(masks, size) ==
    [fn |-> "combine_masks", masks |-> masks, remove_small_clusters |-> size]

\* the minimum cluster sizes asked for
ClusterSizes == 0..(MaxPix - 1)

\* one or two masks combined, with and without cluster removal
CombineInit ==
    /\ pc = "call"
    /\ \E s \in Shapes, k \in {1, 2}, size \in ClusterSizes :
          \E masks \in [1..k -> Array(s[1], s[2], BOOLEAN)] :
              args = CombineCall(masks, size)
    /\ ret = NoValue
    /\ rng = NoValue

\* up to three masks combined, no cluster removal
UnionInit ==
    /\ pc = "call"
    /\ \E s \in Shapes, k \in {1, 2, 3} :
          \E masks \in [1..k -> Array(s[1], s[2], BOOLEAN)] :
              args = CombineCall(masks, 0)
    /\ ret = NoValue
    /\ rng = NoValue

CombineNext == CombineMasks

UnionSpec == UnionInit /\ [][CombineNext]_vars

CombineSpec == CombineInit /\ [][CombineNext]_vars

(***************************************************************************)
(* steps/get_ground_bin.py                                                  *)
(***************************************************************************)
\* the largest int, and what a float that is not finite becomes as an int
IntMax == 2147483647
IntMin == -IntMax - 1

Size(v) == Cardinality(DOMAIN v)

\* (np.diff(heights) < 0).any() and (np.diff(heights) >= 0).any()
AnyStepDown(heights) ==
    \E j \in 0..(Size(heights) - 2) : heights[j + 1] - heights[j] < 0
AnyStepNotDown(heights) ==
    \E j \in 0..(Size(heights) - 2) : heights[j + 1] - heights[j] >= 0

\* lines 49-52 with the inner test taken over all the steps
HeightsNotOrdered_all(heights) ==
    /\ AnyStepDown(heights)
    /\ Size(heights) >= 2
    /\ \A j \in 0..(Size(heights) - 2) : heights[j + 1] - heights[j] >= 0

\* lines 49-52: the heights for which ValueError is raised
HeightsNotOrdered(heights) == AnyStepDown(heights) /\ AnyStepNotDown(heights)

\* np.flip of a vector, and of a matrix along axis 1
FlipVector(v) == [j \in DOMAIN v |-> v[Size(v) - 1 - j]]
FlipAxis1(a) == [i \in DOMAIN a |-> FlipVector(a[i])]

\* lines 47-57: dh is np.mean(np.diff(heights)) of the flipped heights, and
\* stays 0 when the heights are not flipped
Dh(heights) ==
    IF AnyStepDown(heights)
    THEN Frac(heights[0] - heights[Size(heights) - 1], Size(heights) - 1)
    ELSE Real(0)

\* line 61 for dh = 0: np.floor_divide(x, 0).astype(int).  Integer arrays give
\* 0; float arrays give inf, -inf or nan, whose conversion to int depends on
\* the platform
FloorDivideByZero(x, platform) ==
    CASE platform = "int" -> 0
      [] platform = "x86" -> IntMin
      [] OTHER -> IF x > 0 THEN IntMax ELSE IF x < 0 THEN IntMin ELSE 0

Platforms == {"int", "x86", "arm"}

\* line 61: np.floor_divide(dem - heights[0], dh).astype(int)
DemBin(dem, hts, dh, platform) ==
    [i \in DOMAIN dem |->
        IF dh.n = 0 THEN FloorDivideByZero(dem[i] - hts[0], platform)
        ELSE ((dem[i] - hts[0]) * dh.d) \div dh.n]

\* lines 65-70
PossibleGround(cloud_mask, hts, dem, dem_tol, dh) ==
    [i \in DOMAIN cloud_mask |-> [j \in DOMAIN hts |->
        LET delta_heights == Real(dem[i] - hts[j])
            delta_below == FracLeq(delta_heights,
                                   FracAdd(Real(dem[i]), FracMul(Real(dem_tol), dh)))
            delta_above == FracLeq(FracSub(Real(dem[i]), FracMul(Real(dem_tol), dh)),
                                   delta_heights)
        IN (delta_above /\ delta_below) /\ cloud_mask[i][j]]]

\* line 81: the maximum density over the possible ground bins of profile i
MaxDens(density, possible_ground, i) ==
    LET C == {j \in DOMAIN possible_ground[i] : possible_ground[i][j]}
    IN density[i][CHOOSE j \in C : \A k \in C : FracLeq(density[i][k], density[i][j])]

\* line 82: the lowest index of the profile holding that density
GBin(density, possible_ground, i) ==
    LET max_dens == MaxDens(density, possible_ground, i)
        E == {j \in DOMAIN density[i] : density[i][j] = max_dens}
    IN CHOOSE j \in E : \A k \in E : j <= k

\* lines 72-83
GroundBinInternal(density, possible_ground, dem_bin) ==
    [i \in DOMAIN density |->
        IF \E j \in DOMAIN possible_ground[i] : possible_ground[i][j]
        THEN GBin(density, possible_ground, i)
        ELSE dem_bin[i]]

\* lines 44-93: what get_ground_bin returns (ground_bin, ground_height), with
\* the intermediate dem_bin and possible_ground
get_ground_bin(density0, cloud_mask0, heights, dem, dem_tol, platform) ==
    LET flipped == AnyStepDown(heights)
        n_vert == Cols(density0)
        hts == IF flipped THEN FlipVector(heights) ELSE heights
        density == IF flipped THEN FlipAxis1(density0) ELSE density0
        cloud_mask == IF flipped THEN FlipAxis1(cloud_mask0) ELSE cloud_mask0
        dh == Dh(heights)
        dem_bin == DemBin(dem, hts, dh, platform)
        possible_ground == PossibleGround(cloud_mask, hts, dem, dem_tol, dh)
        ground_bin == GroundBinInternal(density, possible_ground, dem_bin)
    IN [ground_bin |->
           [i \in DOMAIN ground_bin |->
               IF flipped THEN n_vert - ground_bin[i] - 1
               ELSE ground_bin[i]],
        ground_height |->
           [i \in DOMAIN ground_bin |->
               IF dh.n = 0 THEN Real(hts[0])
               ELSE FracAdd(FracMul(Real(ground_bin[i]), dh), Real(hts[0]))],
        dem_bin |-> dem_bin,
        possible_ground |-> possible_ground,
        flipped |-> flipped]

\* the platforms line 61 can run on: integer arrays divide by 0 the same way
\* everywhere, and descending heights never divide by 0
PlatformsFor(heights) == IF AnyStepDown(heights) THEN {"int"} ELSE Platforms

\* get_ground_bin(density, cloud_mask, heights, dem, dem_tol)
GetGroundBin ==
    /\ pc = "call"
    /\ args.fn = "get_ground_bin"
    /\ IF HeightsNotOrdered(args.heights)
       THEN pc' = "raise" /\ ret' = [error |-> "ValueError"]
       ELSE \E platform \in PlatformsFor(args.heights) :
            /\ pc' = "return"
            /\ ret' = get_ground_bin(args.density, args.cloud_mask, args.heights,
                                     args.dem, args.dem_tol, platform)
    /\ UNCHANGED <<args, rng>>

\* height vectors of m bins on the grid start, start + spacing, ...: ascending,
\* descending, and (from 3 bins) with one step against the others
HeightVectors(m) ==
    LET grids == {[j \in 0..(m - 1) |-> start + spacing * j] :
                    start \in {-1, 0, 1}, spacing \in {1, 2}}
        swap01(v) == [j \in DOMAIN v |-> IF j = 0 THEN v[1] ELSE IF j = 1 THEN v[0] ELSE v[j]]
    IN grids \cup {FlipVector(g) : g \in grids}
             \cup (IF m >= 3 THEN {swap01(g) : g \in grids}
                                   \cup {swap01(FlipVector(g)) : g \in grids}
                   ELSE {})

DemValues == {0, 1, 2}
Tolerances == {0, 1}
GroundCells == [v : {Real(0), Real(1)}, cloud : BOOLEAN]
GroundShapes == {s \in (1..2) \X (1..MaxBins) : s[1] * s[2] <= MaxBins}

GroundCall(c, heights, dem, dem_tol) ==
    [fn |-> "get_ground_bin",
     density |-> [i \in DOMAIN c |-> [j \in DOMAIN c[0] |-> c[i][j].v]],
     cloud_mask |-> [i \in DOMAIN c |-> [j \in DOMAIN c[0] |-> c[i][j].cloud]],
     heights |-> heights, dem |-> dem, dem_tol |-> dem_tol]

GroundInit ==
    /\ pc = "call"
    /\ \E s \in GroundShapes :
          \E c \in Array(s[1], s[2], GroundCells), heights \in HeightVectors(s[2]),
             dem \in [0..(s[1] - 1) -> DemValues], dem_tol \in Tolerances :
                args = GroundCall(c, heights, dem, dem_tol)
    /\ ret = NoValue
    /\ rng = NoValue

GroundNext == GetGroundBin

GroundSpec == GroundInit /\ [][GroundNext]_vars

(***************************************************************************)
(* steps/replace_mask_with_noise.py                                         *)
(***************************************************************************)
\* seed=None, and an integer seed
NoSeed == NoValue
Seed(i) == [value |-> i]

\* the k-th standard normal deviate (k = 0, 1, ...) of the stream of a
\* generator in state `state`, on the grid {-1, 0, 1}: a fixed function of
\* the state and the position, as a bit generator's stream is
StandardNormal(state, k) == (((2 * state + 1) * (k + 1) + state) % 3) - 1

\* a generator that continues numpy's global generator, whatever the seed
default_rng_global(seed, entropy, global) == global

\* np.random.default_rng(seed): the state of a new generator, set from the
\* seed, or from fresh entropy of the operating system when seed is None
default_rng(seed, entropy, global) ==
    IF seed = NoSeed THEN entropy ELSE seed.value

\* line 47-48: normal(loc=mean.reshape(n,1), scale=sd.reshape(n,1), size=(n,m)),
\* filled in C order, and noise[noise < vmin] = vmin
Noise(n_prof, n_vert, mean, sd, vmin, state) ==
    [i \in 0..(n_prof - 1) |-> [j \in 0..(n_vert - 1) |->
        LET x == mean[i] + sd[i] * StandardNormal(state, i * n_vert + j)
        IN Real(IF x < vmin THEN vmin ELSE x)]]

\* NoisyData writing the noise at every position
NoisyData_everywhere(data, mask, noise) ==
    [i \in DOMAIN data |-> [j \in DOMAIN data[0] |-> noise[i][j]]]

\* lines 43, 50: noisy_data = data.copy(); noisy_data[mask] = noise[mask]
NoisyData(data, mask, noise) ==
    [i \in DOMAIN data |-> [j \in DOMAIN data[0] |->
        IF mask[i][j] THEN noise[i][j] ELSE data[i][j]]]

replace_mask_with_noise(data, mask, mean, sd, vmin, seed, entropy, global) ==
    NoisyData(data, mask,
              Noise(Rows(data), Cols(data), mean, sd, vmin,
                    default_rng(seed, entropy, global)))

\* the entropy the operating system may hand to a generator made without seed
Entropies == {0, 2}

\* replace_mask_with_noise(data, mask, mean, sd, vmin, seed): the result is a
\* new array, the caller's arrays are left as they are
ReplaceMaskWithNoise ==
    /\ pc = "call"
    /\ args.fn = "replace_mask_with_noise"
    /\ \E entropy \in Entropies :
          ret' = [noisy_data |->
                     replace_mask_with_noise(args.data, args.mask, args.mean, args.sd,
                                             args.vmin, args.seed, entropy, rng.global)]
    /\ pc' = "return"
    /\ UNCHANGED <<args, rng>>

\* other code of the process draws from numpy's global generator
OtherRandomDraw ==
    /\ pc = "return"
    /\ args.fn = "replace_mask_with_noise"
    /\ "earlier" \notin DOMAIN ret
    /\ rng.global < MaxDraws
    /\ rng' = [rng EXCEPT !.global = @ + 1]
    /\ UNCHANGED <<pc, args, ret>>

\* the caller calls again with the same arguments
ReplaceMaskWithNoiseAgain ==
    /\ pc = "return"
    /\ args.fn = "replace_mask_with_noise"
    /\ "earlier" \notin DOMAIN ret
    /\ \E entropy \in Entropies :
          ret' = [noisy_data |->
                     replace_mask_with_noise(args.data, args.mask, args.mean, args.sd,
                                             args.vmin, args.seed, entropy, rng.global),
                  earlier |-> ret.noisy_data]
    /\ UNCHANGED <<pc, args, rng>>

NoiseShapes == {s \in (1..2) \X (1..MaxBins) : s[1] * s[2] <= MaxBins}
NoiseCells == [v : {NaN, Real(0), Real(MaxVal)}, masked : BOOLEAN]
Means == {0, 1}
Seeds == {NoSeed, Seed(0), Seed(1)}

NoiseCall(c, mean, seed) ==
    [fn |-> "replace_mask_with_noise",
     data |-> [i \in DOMAIN c |-> [j \in DOMAIN c[0] |-> c[i][j].v]],
     mask |-> [i \in DOMAIN c |-> [j \in DOMAIN c[0] |-> c[i][j].masked]],
     mean |-> mean,
     sd |-> [i \in DOMAIN c |-> 1],
     vmin |-> 0,
     seed |-> seed]

NoiseInit ==
    /\ pc = "call"
    /\ \E s \in NoiseShapes :
          \E c \in Array(s[1], s[2], NoiseCells), mean \in [0..(s[1] - 1) -> Means],
             seed \in Seeds :
                args = NoiseCall(c, mean, seed)
    /\ ret = NoValue
    /\ rng = [global |-> 0]

NoiseNext == ReplaceMaskWithNoise \/ OtherRandomDraw \/ ReplaceMaskWithNoiseAgain

NoiseSpec == NoiseInit /\ [][NoiseNext]_vars

(***************************************************************************)
(* The steps algorithms.py calls whose code is not part of the sources      *)
(* modelled above: written from their description.                          *)
(***************************************************************************)
\* create_kernal.Gaussian(**kernal_args): a Gaussian kernel with odd
\* dimensions, its weights in units of a quarter so that they sum to one; the
\* spread 0 gives the single-pixel kernel
Gaussian(kernal_args) ==
    IF kernal_args.sigma = 0 THEN Arr(<< <<1>> >>) ELSE Arr(<< <<1, 2, 1>> >>)

\* calc_cloud_mask without a remove_small_clusters argument removes no cluster
CloudMaskDefaultSize == 0

\* calc_cloud_mask(density, thresholds, data_mask, remove_small_clusters): a
\* pixel is cloudy iff density > threshold of its profile and it is not in
\* data_mask; clusters smaller than remove_small_clusters are then cleared
calc_cloud_mask(density, thresholds, data_mask, remove_small_clusters) ==
    LET cloudy == [i \in DOMAIN density |-> [j \in DOMAIN density[0] |->
                      FracLt(thresholds[i], density[i][j]) /\ ~data_mask[i][j]]]
    IN IF remove_small_clusters > 0
       THEN remove_small_objects(cloudy, remove_small_clusters)
       ELSE cloudy

\* the pixels of profile i the noise is estimated from: not cloudy, not
\* missing, higher than noise_altitude above the elevation model
NoisePopulation(data, cloud_mask, heights, dem, noise_altitude, i) ==
    {j \in DOMAIN data[i] :
        /\ ~cloud_mask[i][j]
        /\ ~IsNaN(data[i][j])
        /\ heights[j] > dem[i] + noise_altitude}

\* calc_noise_at_height(data, cloud_mask, heights, dem, noise_altitude, quantile):
\* per profile the mean and the standard deviation of the noise population,
\* on the integer grid (the mean rounded down, a non-zero deviation rounded
\* up to 1); a profile without population gets mean 0 and deviation 0
calc_noise_at_height(data, cloud_mask, heights, dem, noise_altitude, quantile) ==
    LET pop(i) == NoisePopulation(data, cloud_mask, heights, dem, noise_altitude, i)
        val(i) == [j \in pop(i) |-> data[i][j].n]
    IN [mean |-> [i \in DOMAIN data |->
                     IF pop(i) = {} THEN 0
                     ELSE SumOver(pop(i), val(i)) \div Cardinality(pop(i))],
        sd |-> [i \in DOMAIN data |->
                     IF \E j, k \in pop(i) : data[i][j] # data[i][k] THEN 1 ELSE 0]]

\* combine_layers_from_mask_vectorized(cloud_mask): the consolidated layer
\* mask, a one-bin gap between two cloudy bins of a profile filled
combine_layers_from_mask(cloud_mask) ==
    [i \in DOMAIN cloud_mask |-> [j \in DOMAIN cloud_mask[0] |->
        \/ cloud_mask[i][j]
        \/ /\ j - 1 \in DOMAIN cloud_mask[0] /\ j + 1 \in DOMAIN cloud_mask[0]
           /\ cloud_mask[i][j - 1] /\ cloud_mask[i][j + 1]]]

\* remove_ground_from_mask(layer_mask, ground_bin, cloud_mask, ground_width,
\* heights): the ground mask is the layer mask within the window of
\* ground_width bins centred on the ground bin, the cloud mask loses it
remove_ground_from_mask(layer_mask, ground_bin, cloud_mask, ground_width, heights) ==
    LET ground_mask == [i \in DOMAIN layer_mask |-> [j \in DOMAIN layer_mask[0] |->
                           /\ layer_mask[i][j]
                           /\ ground_bin[i] \in (0 - ground_width)..(Cols(layer_mask) + ground_width)
                           /\ 2 * Abs(j - ground_bin[i]) < ground_width]]
    IN [ground_mask |-> ground_mask,
        cloud_mask_no_ground |->
            [i \in DOMAIN cloud_mask |-> [j \in DOMAIN cloud_mask[0] |->
                cloud_mask[i][j] /\ ~ground_mask[i][j]]]]

\* get_layer_boundaries(layer_mask, heights): per profile the maximal runs of
\* cloudy bins, as the heights of their first and last bin, and their number
get_layer_boundaries(layer_mask, heights) ==
    LET m == Cols(layer_mask)
        first(i) == {j \in 0..(m - 1) : layer_mask[i][j] /\ (j = 0 \/ ~layer_mask[i][j - 1])}
        last(i) == {j \in 0..(m - 1) : layer_mask[i][j] /\ (j = m - 1 \/ ~layer_mask[i][j + 1])}
    IN [num_cloud_layers |-> [i \in DOMAIN layer_mask |-> Cardinality(first(i))],
        layer_bot |-> [i \in DOMAIN layer_mask |-> {heights[j] : j \in first(i)}],
        layer_top |-> [i \in DOMAIN layer_mask |-> {heights[j] : j \in last(i)}]]

(***************************************************************************)
(* algorithms.py: dda_atl and dda_eeasm_part1 (with dda_firstpass).  pc is  *)
(* the stage about to run; ret holds the local variables bound so far and   *)
(* the stages completed.  dda_eeasm_part1 takes its first pass from         *)
(* dda_firstpass, which returns kernal1, density1, thresholds1 and          *)
(* cloud_mask1 and keeps data_mask to itself.                               *)
(***************************************************************************)
StageOrder ==
    << "Pass1Density", "Pass1Threshold", "Pass1Mask", "MaskUpdate", "Pass2Density",
       "Pass2Threshold", "Pass2Mask", "Combine", "GroundDetect", "GroundRemove",
       "Extract" >>

StageIndex(stage) == CHOOSE k \in 1..Len(StageOrder) : StageOrder[k] = stage

\* the stage whose code ends the function: dda_eeasm_part1 returns after the
\* second density
LastStage(fn) == IF fn = "dda_eeasm_part1" THEN "Pass2Density" ELSE "Extract"

\* NextStage running the second threshold again after the second mask
NextStage_again(fn, stage) ==
    IF stage = "Pass2Mask" THEN "Pass2Threshold"
    ELSE IF stage = LastStage(fn) THEN "return"
    ELSE StageOrder[StageIndex(stage) + 1]

\* the statements that follow those of `stage` in the function body
NextStage(fn, stage) ==
    IF stage = LastStage(fn) THEN "return" ELSE StageOrder[StageIndex(stage) + 1]

\* the locals after binding those of `new`, and after one more stage
Bind(locals, new) == new @@ locals
Completed(locals, stage) ==
    [locals EXCEPT !.stages = Append(@, stage)]
Del(locals, name) == [k \in DOMAIN locals \ {name} |-> locals[k]]

\* np.isnan(data)
IsMissing(data) == [i \in DOMAIN data |-> [j \in DOMAIN data[0] |-> IsNaN(data[i][j])]]

\* np.logical_or(data_mask, cloud_mask1)
LogicalOr(a, b) == [i \in DOMAIN a |-> [j \in DOMAIN a[0] |-> a[i][j] \/ b[i][j]]]

\* the pixel values as the integers the convolution works on; a NaN pixel,
\* which data_mask covers in every call made, is read as 0
Magnitudes(data) ==
    [i \in DOMAIN data |-> [j \in DOMAIN data[0] |->
        IF IsNaN(data[i][j]) THEN 0 ELSE data[i][j].n]]

\* calc_density_field(data, data_mask, kernal, **density_args): the masked
\* convolution of the density stage, taking the arguments unpacked
calc_density_field(data, data_mask, kernal, density_args) ==
    convolve_masked(data, data_mask, kernal, density_args)

\* calc_threshold(density, data_mask, **threshold_args): whether it raises,
\* the thresholds it returns, and the density array as the call leaves it
calc_threshold(density, data_mask, kw) ==
    LET n_prof == Rows(density)
        matrix == DownsampleMatrix(density, TRUE, data_mask, kw.downsample)
        raises == \E xx \in 0..(n_prof - 1) : WindowRaises(xx, n_prof, kw)
    IN [raises |-> raises,
        thresholds |-> IF raises THEN NoValue ELSE Thresholds(matrix, kw),
        density |-> DensityAfterCall(density, TRUE, data_mask, kw)]

\* the remove_small_clusters a pass hands to calc_cloud_mask
PassFilterSize(remove_clusters_in_pass, min_cluster_size) ==
    IF remove_clusters_in_pass THEN min_cluster_size ELSE CloudMaskDefaultSize

\* the remove_small_clusters handed to combine_masks
UnionFilterSize(remove_clusters_in_pass, min_cluster_size) == min_cluster_size

\* the invalid-data mask handed to calc_cloud_mask, with no pixel flagged
MaskBuilderMask_none(data_mask) ==
    [i \in DOMAIN data_mask |-> [j \in DOMAIN data_mask[0] |-> FALSE]]

\* the invalid-data mask handed to calc_cloud_mask
MaskBuilderMask(data_mask) == data_mask

\* the invalid-data mask of the second pass
Pass2DataMask(fill_clouds_with_noise, data_mask, cloud_mask1) ==
    IF fill_clouds_with_noise THEN data_mask ELSE LogicalOr(data_mask, cloud_mask1)

PipelineCalled == args.fn \in {"dda_atl", "dda_eeasm_part1"}

\* the locals of the function after its first pass: those of dda_atl itself,
\* or the four values dda_firstpass returns to dda_eeasm_part1
FirstPassLocals(fn, locals) ==
    IF fn = "dda_eeasm_part1" THEN Del(locals, "data_mask") ELSE locals

\* reading a local variable the function assigns further down, or not at all
\* on the path taken, raises UnboundLocalError
Unbound(locals, name) == name \notin DOMAIN locals

\* what the caller holds when a run starts: the result of an earlier run
Held(held) == [k \in DOMAIN held \cap {"earlier"} |-> held[k]]

\* data_mask = np.isnan(data); kernal1 = Gaussian(**kernal_args);
\* density1 = calc_density(data, data_mask, kernal1, density_args)
Pass1Density ==
    /\ pc = "call"
    /\ PipelineCalled
    /\ LET data_mask == IsMissing(args.data)
           kernal1 == Gaussian(args.kernal_args)
       IN ret' = Bind(Held(ret),
                      [stages |-> <<"Pass1Density">>,
                       data_mask |-> data_mask,
                       kernal1 |-> kernal1,
                       density1 |-> convolve_masked(Magnitudes(args.data), data_mask,
                                                    kernal1, args.density_args)])
    /\ pc' = NextStage(args.fn, "Pass1Density")
    /\ UNCHANGED <<args, rng>>

\* thresholds1 = calc_threshold(density1, data_mask, **threshold_args)
Pass1Threshold ==
    /\ pc = "Pass1Threshold"
    /\ PipelineCalled
    /\ LET call == calc_threshold(ret.density1, ret.data_mask, args.threshold_args)
       IN IF call.raises
          THEN /\ ret' = Bind(ret, [error |-> "AxisError", density1 |-> call.density])
               /\ pc' = "raise"
          ELSE /\ ret' = Completed(Bind(ret, [thresholds1 |-> call.thresholds,
                                              density1 |-> call.density]),
                                   "Pass1Threshold")
               /\ pc' = NextStage(args.fn, "Pass1Threshold")
    /\ UNCHANGED <<args, rng>>

\* cloud_mask1 = calc_cloud_mask(density1, thresholds1, data_mask, ...)
Pass1Mask ==
    /\ pc = "Pass1Mask"
    /\ PipelineCalled
    /\ ret' = FirstPassLocals(args.fn,
                Completed(
                    Bind(ret, [cloud_mask1 |->
                        calc_cloud_mask(ret.density1, ret.thresholds1,
                                        MaskBuilderMask(ret.data_mask),
                                        PassFilterSize(args.remove_clusters_in_pass,
                                                       args.min_cluster_size))]),
                    "Pass1Mask"))
    /\ pc' = NextStage(args.fn, "Pass1Mask")
    /\ UNCHANGED <<args, rng>>

\* kernal2 = Gaussian(**kernal_args2), then the noise infill
\* (calc_noise_at_height, replace_mask_with_noise) or the widening of data_mask
MaskUpdate ==
    /\ pc = "MaskUpdate"
    /\ PipelineCalled
    /\ LET kernal2 == Gaussian(args.kernal_args2)
       IN IF ~args.fill_clouds_with_noise
          THEN IF Unbound(ret, "data_mask")
               THEN /\ ret' = Bind(ret, [error |-> "UnboundLocalError", kernal2 |-> kernal2])
                    /\ pc' = "raise"
               ELSE /\ ret' = Completed(
                                 Bind(ret, [kernal2 |-> kernal2,
                                            data_mask |->
                                               Pass2DataMask(FALSE, ret.data_mask,
                                                             ret.cloud_mask1)]),
                                 "MaskUpdate")
                    /\ pc' = NextStage(args.fn, "MaskUpdate")
          ELSE IF "quantile" \notin DOMAIN args.kernal_args
          THEN /\ ret' = Bind(ret, [error |-> "KeyError", kernal2 |-> kernal2])
               /\ pc' = "raise"
          ELSE \E entropy \in Entropies :
               LET noise == calc_noise_at_height(args.data, ret.cloud_mask1, args.heights,
                                                 args.dem, args.noise_altitude,
                                                 args.kernal_args.quantile)
                   data_mask == [k \in DOMAIN ret \cap {"data_mask"} |->
                                    Pass2DataMask(TRUE, ret.data_mask, ret.cloud_mask1)]
               IN /\ ret' = Completed(
                              Bind(Bind(ret, data_mask),
                                   [kernal2 |-> kernal2,
                                    mean |-> noise.mean, sd |-> noise.sd,
                                    data_with_noise |->
                                       replace_mask_with_noise(
                                           args.data, ret.cloud_mask1, noise.mean,
                                           noise.sd, 0, NoSeed, entropy, 0)]),
                              "MaskUpdate")
                  /\ pc' = NextStage(args.fn, "MaskUpdate")
    /\ UNCHANGED <<args, rng>>

\* the checkpoint dda_eeasm_part1 returns
Checkpoint(locals) ==
    [k \in {"kernal1", "kernal2", "density1", "density2", "thresholds1", "cloud_mask1",
            "data_mask"} |-> locals[k]]

\* density2 = calc_density_field(data_with_noise, ...); del data_with_noise, or
\* density2 = calc_density(data, data_mask, kernal2, density_args2);
\* dda_eeasm_part1 returns here
Pass2Density ==
    /\ pc = "Pass2Density"
    /\ PipelineCalled
    /\ IF Unbound(ret, "data_mask")
       THEN /\ ret' = Bind(ret, [error |-> "UnboundLocalError"])
            /\ pc' = "raise"
       ELSE LET density2 ==
                    IF args.fill_clouds_with_noise
                    THEN calc_density_field(Magnitudes(ret.data_with_noise), ret.data_mask,
                                            ret.kernal2, args.density_args2)
                    ELSE convolve_masked(Magnitudes(args.data), ret.data_mask, ret.kernal2,
                                         args.density_args2)
                locals == Completed(Bind(Del(ret, "data_with_noise"),
                                         [density2 |-> density2]),
                                    "Pass2Density")
            IN /\ ret' = IF args.fn = "dda_eeasm_part1"
                         THEN Bind(locals, [result |-> Checkpoint(locals)])
                         ELSE locals
               /\ pc' = NextStage(args.fn, "Pass2Density")
    /\ UNCHANGED <<args, rng>>

\* thresholds2 = calc_threshold(density2, data_mask, **threshold_args2)
Pass2Threshold ==
    /\ pc = "Pass2Threshold"
    /\ PipelineCalled
    /\ LET call == calc_threshold(ret.density2, ret.data_mask, args.threshold_args2)
       IN IF call.raises
          THEN /\ ret' = Bind(ret, [error |-> "AxisError", density2 |-> call.density])
               /\ pc' = "raise"
          ELSE /\ ret' = Completed(Bind(ret, [thresholds2 |-> call.thresholds,
                                              density2 |-> call.density]),
                                   "Pass2Threshold")
               /\ pc' = NextStage(args.fn, "Pass2Threshold")
    /\ UNCHANGED <<args, rng>>

\* cloud_mask2 = calc_cloud_mask(density2, thresholds2, data_mask, ...)
Pass2Mask ==
    /\ pc = "Pass2Mask"
    /\ PipelineCalled
    /\ ret' = Completed(
                Bind(ret, [cloud_mask2 |->
                    calc_cloud_mask(ret.density2, ret.thresholds2,
                                    MaskBuilderMask(ret.data_mask),
                                    PassFilterSize(args.remove_clusters_in_pass,
                                                   args.min_cluster_size))]),
                "Pass2Mask")
    /\ pc' = NextStage(args.fn, "Pass2Mask")
    /\ UNCHANGED <<args, rng>>

\* cloud_mask_combined = combine_masks((cloud_mask1, cloud_mask2),
\*                                     remove_small_clusters=min_cluster_size)
Combine ==
    /\ pc = "Combine"
    /\ PipelineCalled
    /\ ret' = Completed(
                Bind(ret, [cloud_mask_combined |->
                    combine_masks(<<ret.cloud_mask1, ret.cloud_mask2>>,
                                  UnionFilterSize(args.remove_clusters_in_pass,
                                                  args.min_cluster_size))]),
                "Combine")
    /\ pc' = NextStage(args.fn, "Combine")
    /\ UNCHANGED <<args, rng>>

\* (ground_bin, ground_height) = get_ground_bin(density1, cloud_mask_combined,
\*                                              heights, dem, dem_tol)
GroundDetect ==
    /\ pc = "GroundDetect"
    /\ PipelineCalled
    /\ IF HeightsNotOrdered(args.heights)
       THEN /\ ret' = Bind(ret, [error |-> "ValueError"])
            /\ pc' = "raise"
       ELSE \E platform \in PlatformsFor(args.heights) :
            LET ground == get_ground_bin(ret.density1, ret.cloud_mask_combined,
                                         args.heights, args.dem, args.dem_tol, platform)
            IN /\ ret' = Completed(Bind(ret, [ground_bin |-> ground.ground_bin,
                                              ground_height |-> ground.ground_height]),
                                   "GroundDetect")
               /\ pc' = NextStage(args.fn, "GroundDetect")
    /\ UNCHANGED <<args, rng>>

\* layer_mask_with_ground = combine_layers_from_mask_vectorized(cloud_mask_combined);
\* cloud_mask_no_ground, ground_mask = remove_ground_from_mask(
\*     layer_mask_with_ground, ground_bin, cloud_mask_combined, ground_width, heights)
GroundRemove ==
    /\ pc = "GroundRemove"
    /\ PipelineCalled
    /\ LET layer_mask_with_ground == combine_layers_from_mask(ret.cloud_mask_combined)
           removed == remove_ground_from_mask(layer_mask_with_ground, ret.ground_bin,
                                              ret.cloud_mask_combined, args.ground_width,
                                              args.heights)
       IN ret' = Completed(
                   Bind(ret, [layer_mask_with_ground |-> layer_mask_with_ground,
                              cloud_mask_no_ground |-> removed.cloud_mask_no_ground,
                              ground_mask |-> removed.ground_mask]),
                   "GroundRemove")
    /\ pc' = NextStage(args.fn, "GroundRemove")
    /\ UNCHANGED <<args, rng>>

\* the tuples dda_atl returns
DdaAtlResult(locals) ==
    [k \in {"num_cloud_layers", "layer_bot", "layer_top", "density1", "density2",
            "thresholds1", "thresholds2", "cloud_mask1", "cloud_mask2", "ground_mask",
            "ground_height", "layer_mask_with_ground", "cloud_mask_no_ground",
            "layer_mask"} |-> locals[k]]

\* layer_mask = combine_layers_from_mask_vectorized(cloud_mask_no_ground);
\* num_cloud_layers, layer_bot, layer_top = get_layer_boundaries(layer_mask, heights);
\* return
Extract ==
    /\ pc = "Extract"
    /\ PipelineCalled
    /\ LET layer_mask == combine_layers_from_mask(ret.cloud_mask_no_ground)
           layers == get_layer_boundaries(layer_mask, args.heights)
           locals == Completed(
                       Bind(ret, [layer_mask |-> layer_mask,
                                  num_cloud_layers |-> layers.num_cloud_layers,
                                  layer_bot |-> layers.layer_bot,
                                  layer_top |-> layers.layer_top]),
                       "Extract")
       IN ret' = Bind(locals, [result |-> DdaAtlResult(locals)])
    /\ pc' = NextStage(args.fn, "Extract")
    /\ UNCHANGED <<args, rng>>

\* the local variables the statements of a stage read
Consumes(stage, fill_clouds_with_noise) ==
    CASE stage = "Pass1Density" -> {}
      [] stage = "Pass1Threshold" -> {"density1", "data_mask"}
      [] stage = "Pass1Mask" -> {"density1", "thresholds1", "data_mask"}
      [] stage = "MaskUpdate" -> {"cloud_mask1", "data_mask"}
      [] stage = "Pass2Density" ->
            IF fill_clouds_with_noise THEN {"data_with_noise", "data_mask", "kernal2"}
            ELSE {"data_mask", "kernal2"}
      [] stage = "Pass2Threshold" -> {"density2", "data_mask"}
      [] stage = "Pass2Mask" -> {"density2", "thresholds2", "data_mask"}
      [] stage = "Combine" -> {"cloud_mask1", "cloud_mask2"}
      [] stage = "GroundDetect" -> {"density1", "cloud_mask_combined"}
      [] stage = "GroundRemove" -> {"cloud_mask_combined", "ground_bin"}
      [] stage = "Extract" -> {"cloud_mask_no_ground"}

\* the caller keeps the result of a run with the noise infill and runs the
\* function again on the same arguments
RunAgain ==
    /\ pc = "return"
    /\ PipelineCalled
    /\ args.fill_clouds_with_noise
    /\ "earlier" \notin DOMAIN ret
    /\ ret' = [earlier |-> ret.result]
    /\ pc' = "call"
    /\ UNCHANGED <<args, rng>>

\* the intensity matrices: a pixel is missing (NaN), 0 or MaxVal
PipelineShapes == {s \in (1..2) \X (1..MaxBins) : s[1] * s[2] <= MaxBins}
PipelineCells == {NaN, Real(0), Real(MaxVal)}

\* bins of unit spacing from 0: ascending, descending, and from 3 bins on
\* with the first two swapped
PipelineHeights(m) ==
    LET up == [j \in 0..(m - 1) |-> j]
    IN {up, FlipVector(up)} \cup
       (IF m >= 3
        THEN {[j \in 0..(m - 1) |-> IF j = 0 THEN 1 ELSE IF j = 1 THEN 0 ELSE j]}
        ELSE {})

\* the kernel parameters, with and without a 'quantile' entry
KernalArgs == {[sigma |-> 1], [sigma |-> 1, quantile |-> 50]}

\* the threshold parameters of both passes
PipelineThresholdArgs ==
    { [downsample |-> 0, segment_length |-> 0, bias |-> 0, sensitivity |-> 1, quantile |-> 50],
      [downsample |-> 1, segment_length |-> 0, bias |-> 0, sensitivity |-> 0, quantile |-> 50],
      [downsample |-> 0, segment_length |-> 1, bias |-> 0, sensitivity |-> 1, quantile |-> 50] }

\* min_cluster_size and remove_clusters_in_pass
ClusterArgs ==
    { [min_cluster_size |-> 0, remove_clusters_in_pass |-> FALSE],
      [min_cluster_size |-> 2, remove_clusters_in_pass |-> FALSE],
      [min_cluster_size |-> 2, remove_clusters_in_pass |-> TRUE] }

PipelineCall(fn, data, heights, kernal_args, threshold_args, cluster_args, fill) ==
    [fn |-> fn, data |-> data, heights |-> heights,
     dem |-> [i \in DOMAIN data |-> 0],
     kernal_args |-> kernal_args, kernal_args2 |-> [sigma |-> 0],
     density_args |-> EmptyKwargs, density_args2 |-> EmptyKwargs,
     threshold_args |-> threshold_args, threshold_args2 |-> threshold_args,
     min_cluster_size |-> cluster_args.min_cluster_size,
     remove_clusters_in_pass |-> cluster_args.remove_clusters_in_pass,
     fill_clouds_with_noise |-> fill,
     noise_altitude |-> -1, dem_tol |-> 1, ground_width |-> 1]

PipelineInit ==
    /\ pc = "call"
    /\ \E s \in PipelineShapes, fn \in {"dda_atl", "dda_eeasm_part1"}, fill \in BOOLEAN :
          \E data \in Array(s[1], s[2], PipelineCells), heights \in PipelineHeights(s[2]),
             kernal_args \in KernalArgs, threshold_args \in PipelineThresholdArgs,
             cluster_args \in ClusterArgs :
                /\ fill \/ "quantile" \notin DOMAIN kernal_args
                /\ args = PipelineCall(fn, data, heights, kernal_args, threshold_args,
                                       cluster_args, fill)
    /\ ret = NoValue
    /\ rng = NoValue

PipelineNext ==
    \/ Pass1Density \/ Pass1Threshold \/ Pass1Mask \/ MaskUpdate \/ Pass2Density
    \/ Pass2Threshold \/ Pass2Mask \/ Combine \/ GroundDetect \/ GroundRemove \/ Extract
    \/ RunAgain

PipelineSpec == PipelineInit /\ [][PipelineNext]_vars

(***************************************************************************)
(* dda_data.py: the DDA_data container.  An array is known by its shape    *)
(* and a tag that stands for its contents; None is NoValue.  ret.obj is    *)
(* the constructed object, ret.outcome what an indexing of it gave; pc is   *)
(* "indexed" once the caller has indexed it.                                *)
(***************************************************************************)
MaxDim == 2       \* largest extent of an array axis handed to DDA_data
MaxBatches == 2   \* largest number of batch output dictionaries stored

None == NoValue
Ndim(array) == Len(array.shape)

\* DDA_data.__init__ without the comparison of dem's length with n
DDA_data_anydem(data_in, heights, dem) ==
    IF Ndim(data_in) # 2 THEN [error |-> "ValueError"]
    ELSE LET n == data_in.shape[1]
             m == data_in.shape[2]
         IN IF heights # None /\ Ndim(heights) # 1 THEN [error |-> "ValueError"]
            ELSE IF heights # None /\ m # heights.shape[1] THEN [error |-> "ValueError"]
            ELSE IF dem # None /\ Ndim(dem) # 1 THEN [error |-> "ValueError"]
            ELSE [obj |-> [data_in |-> data_in, heights |-> heights, dem |-> dem,
                           batch_outputs |-> << >>]]

\* DDA_data.__init__: the object, or the error raised
DDA_data(data_in, heights, dem) ==
    IF Ndim(data_in) # 2 THEN [error |-> "ValueError"]
    ELSE LET n == data_in.shape[1]
             m == data_in.shape[2]
         IN IF heights # None /\ Ndim(heights) # 1 THEN [error |-> "ValueError"]
            ELSE IF heights # None /\ m # heights.shape[1] THEN [error |-> "ValueError"]
            ELSE IF dem # None /\ Ndim(dem) # 1 THEN [error |-> "ValueError"]
            ELSE IF dem # None /\ n # dem.shape[1] THEN [error |-> "ValueError"]
            ELSE [obj |-> [data_in |-> data_in, heights |-> heights, dem |-> dem,
                           batch_outputs |-> << >>]]

\* the Python objects a caller indexes with: a string, an int, or the tuple
\* that the subscription obj[batch, key] builds of the two
PyStr(s) == [type |-> "str", v |-> s]
PyInt(i) == [type |-> "int", v |-> i]
PyTuple(batch, key) == [type |-> "tuple", v |-> <<batch, key>>]

\* the positional arguments __getitem__ receives: obj[x] hands over the one
\* object x, which for obj[batch, key] is the tuple (batch, key); only the
\* method call obj.__getitem__(batch, key) hands over two
Subscription(x) == << x >>
MethodCall(batch, key) == << batch, key >>

\* key == name, and key in out_dict: a tuple equals no string
IsName(key, name) == key.type = "str" /\ key.v = name
Holds(out_dict, key) == key.type = "str" /\ key.v \in DOMAIN out_dict

\* the first dictionary of batch_outputs, from position k on, that holds key
RECURSIVE FirstHolding(_, _, _)
FirstHolding(batch_outputs, key, k) ==
    IF k > Len(batch_outputs) THEN 0
    ELSE IF Holds(batch_outputs[k], key) THEN k
    ELSE FirstHolding(batch_outputs, key, k + 1)

\* the branch of __getitem__ for one positional argument
GetByKey(self, key) ==
    LET k == FirstHolding(self.batch_outputs, key, 1)
    IN IF IsName(key, "data_in") THEN [value |-> self.data_in]
       ELSE IF IsName(key, "heights") THEN [value |-> self.heights]
       ELSE IF IsName(key, "dem") THEN [value |-> self.dem]
       ELSE IF k > 0 THEN [value |-> self.batch_outputs[k][key.v]]
       ELSE [error |-> "KeyError"]

\* the branch of __getitem__ for two positional arguments
GetByBatchAndKey(self, batch, key) ==
    IF batch.v >= Len(self.batch_outputs) THEN [error |-> "IndexError"]
    ELSE IF Holds(self.batch_outputs[batch.v + 1], key)
    THEN [value |-> self.batch_outputs[batch.v + 1][key.v]]
    ELSE [error |-> "KeyError"]

\* DDA_data.__getitem__(self, *args): the value returned, or the error raised
getitem(self, argv) ==
    IF Len(argv) = 1 THEN GetByKey(self, argv[1])
    ELSE IF Len(argv) = 2 THEN GetByBatchAndKey(self, argv[1], argv[2])
    ELSE [error |-> "ValueError"]

ContainerCalled == args.fn = "DDA_data"

\* obj = DDA_data(data_in, heights, dem)
Construct ==
    /\ pc = "call"
    /\ ContainerCalled
    /\ LET made == DDA_data(args.data_in, args.heights, args.dem)
       IN /\ ret' = made
          /\ pc' = IF "error" \in DOMAIN made THEN "raise" ELSE "return"
    /\ UNCHANGED <<args, rng>>

\* the output dictionaries of a batch: some of the keys, each with a value
OutputKeys == {"thresholds", "cloud_mask"}
OutputDicts == UNION {[keys -> 1..2] : keys \in SUBSET OutputKeys}

\* obj.batch_outputs.append(out_dict)
StoreBatchOutput ==
    /\ pc = "return"
    /\ ContainerCalled
    /\ Len(ret.obj.batch_outputs) < MaxBatches
    /\ \E out_dict \in OutputDicts :
          ret' = [obj |-> [ret.obj EXCEPT !.batch_outputs = Append(@, out_dict)]]
    /\ UNCHANGED <<pc, args, rng>>

\* the keys and batch numbers a caller indexes with
IndexKeys == {"data_in", "heights", "dem"} \cup OutputKeys
IndexBatches == 0..MaxBatches

\* obj[key], obj[batch, key] and obj.__getitem__(batch, key)
GetItem ==
    /\ pc = "return"
    /\ ContainerCalled
    /\ \E key \in IndexKeys, batch \in IndexBatches,
          form \in {"obj[key]", "obj[batch, key]", "obj.__getitem__(batch, key)"} :
          LET argv == CASE form = "obj[key]" -> Subscription(PyStr(key))
                        [] form = "obj[batch, key]" ->
                              Subscription(PyTuple(PyInt(batch), PyStr(key)))
                        [] OTHER -> MethodCall(PyInt(batch), PyStr(key))
          IN ret' = [obj |-> ret.obj, form |-> form, key |-> key,
                     batch |-> IF form = "obj[key]" THEN None ELSE batch,
                     outcome |-> getitem(ret.obj, argv)]
    /\ pc' = "indexed"
    /\ UNCHANGED <<args, rng>>

\* the arrays handed to the constructor: up to three axes, None for the
\* optional ones
ShapesOf(ndims) == UNION {[1..d -> 1..MaxDim] : d \in ndims}
ArraysOf(ndims, tag) == {[shape |-> s, tag |-> tag] : s \in ShapesOf(ndims)}

ContainerInit ==
    /\ pc = "call"
    /\ \E data_in \in ArraysOf(1..3, "data_in"),
          heights \in ArraysOf(0..2, "heights") \cup {None},
          dem \in ArraysOf(0..2, "dem") \cup {None} :
          args = [fn |-> "DDA_data", data_in |-> data_in, heights |-> heights, dem |-> dem]
    /\ ret = NoValue
    /\ rng = NoValue

ContainerNext == Construct \/ StoreBatchOutput \/ GetItem

ContainerSpec == ContainerInit /\ [][ContainerNext]_vars

(***************************************************************************)
(* steps/calc_density.py: the hand-written convolve2d and perform_conv.     *)
(* A kernel is an integer array over a common denominator; the arrays made *)
(* by convolve2d have the dtype of data, and a value stored into an array   *)
(* of integer dtype is truncated.                                           *)
(***************************************************************************)
\* a slice start:stop:step; << >> stands for a bound left out
Slice(start, stop, step) == [start |-> start, stop |-> stop, step |-> step]
All == Slice(<< >>, << >>, 1)
UpTo(stop) == Slice(<< >>, << stop >>, 1)
From(start) == Slice(<< start >>, << >>, 1)
Between(start, stop) == Slice(<< start >>, << stop >>, 1)
DownTo(stop) == Slice(<< >>, << stop >>, -1)
DownFrom(start) == Slice(<< start >>, << >>, -1)

Clamp(v, lo, hi) == IF v < lo THEN lo ELSE IF v > hi THEN hi ELSE v

\* slice.indices(len): the indices a slice selects on an axis of length len
SliceIndices(s, len) ==
    LET lo == IF s.step > 0 THEN 0 ELSE -1
        hi == IF s.step > 0 THEN len ELSE len - 1
        wrapped(v) == IF v < 0 THEN v + len ELSE v
        start == IF s.start = << >> THEN (IF s.step > 0 THEN 0 ELSE len - 1)
                 ELSE Clamp(wrapped(s.start[1]), lo, hi)
        stop == IF s.stop = << >> THEN (IF s.step > 0 THEN len ELSE -1)
                ELSE Clamp(wrapped(s.stop[1]), lo, hi)
        count == IF s.step > 0 THEN Max(0, stop - start) ELSE Max(0, start - stop)
    IN [t \in 1..count |-> start + (t - 1) * s.step]

\* a[rows, cols]: the shape of the selection and the element at each place
View(a, n, m, rows, cols) ==
    LET r == SliceIndices(rows, n)
        c == SliceIndices(cols, m)
    IN [shape |-> << Len(r), Len(c) >>,
        at |-> [p \in (1..Len(r)) \X (1..Len(c)) |-> a[r[p[1]]][c[p[2]]]]]

\* a scalar as the value of an assignment
Scalar(v) == [shape |-> << 1, 1 >>, at |-> [p \in {<<1, 1>>} |-> v]]

\* numpy broadcasting of a value of shape `from` into a selection of shape `to`
Broadcasts(from, to) ==
    /\ from[1] = to[1] \/ from[1] = 1
    /\ from[2] = to[2] \/ from[2] = 1

\* a[rows, cols] = value: the array after the assignment, or the ValueError
\* numpy raises when the shapes cannot be broadcast
SetItem(a, n, m, rows, cols, value) ==
    LET r == SliceIndices(rows, n)
        c == SliceIndices(cols, m)
        place(i, idx) == CHOOSE t \in 1..Len(idx) : idx[t] = i
        from(t, len) == IF len = 1 THEN 1 ELSE t
    IN IF ~Broadcasts(value.shape, << Len(r), Len(c) >>)
       THEN [error |-> "ValueError"]
       ELSE [array |->
                [i \in DOMAIN a |-> [j \in DOMAIN a[i] |->
                    IF (\E t \in 1..Len(r) : r[t] = i) /\ (\E t \in 1..Len(c) : c[t] = j)
                    THEN value.at[<< from(place(i, r), value.shape[1]),
                                     from(place(j, c), value.shape[2]) >>]
                    ELSE a[i][j]]]]

\* the assignments of a sequence made in order, up to the first that raises
RECURSIVE SetItems(_, _, _, _)
SetItems(a, n, m, assignments) ==
    IF assignments = << >> THEN [array |-> a]
    ELSE LET first == Head(assignments)
             made == SetItem(a, n, m, first[1], first[2], first[3])
         IN IF "error" \in DOMAIN made THEN made
            ELSE SetItems(made.array, n, m, Tail(assignments))

\* the whole part of a fraction, as a cast to an integer dtype takes it
Trunc(x) == IF x.n >= 0 THEN x.n \div x.d ELSE 0 - ((0 - x.n) \div x.d)

\* a value as an array of the given dtype stores it
Cast(dtype, x) == IF dtype = "int64" THEN Real(Trunc(x)) ELSE x

\* the kernel entry at (k, l) of np.flip(kernal)
FlippedKernal(kernal, k, l) ==
    Frac(kernal.num[Rows(kernal.num) - 1 - k][Cols(kernal.num) - 1 - l], kernal.den)

\* conv[i,j] after the terms 0..t-1 of the loops over k and l have been added
RECURSIVE Accumulated(_, _, _, _, _, _)
Accumulated(data, kernal, dtype, i, j, t) ==
    IF t = 0 THEN Real(0)
    ELSE LET mk == Cols(kernal.num)
             k == (t - 1) \div mk
             l == (t - 1) % mk
         IN Cast(dtype,
                 FracAdd(Accumulated(data, kernal, dtype, i, j, t - 1),
                         FracMul(Real(data[i + k + 1][j + l + 1]),
                                 FlippedKernal(kernal, k, l))))

\* perform_conv(data, kernal) for data of shape (n, m)
perform_conv(data, n, m, kernal, dtype) ==
    LET nk == Rows(kernal.num)
        mk == Cols(kernal.num)
    IN [i \in 0..(n - nk - 1) |-> [j \in 0..(m - mk - 1) |->
            Accumulated(data, kernal, dtype, i, j, nk * mk)]]

\* the assignments convolve2d makes to new_data for a boundary, the data last
Padding(data, n, m, nk, mk, boundary, fillvalue) ==
    LET dn == (nk \div 2) + 1
        dm == (mk \div 2) + 1
        d(rows, cols) == View(data, n, m, rows, cols)
        whole == [shape |-> << n, m >>,
                  at |-> [p \in (1..n) \X (1..m) |-> data[p[1] - 1][p[2] - 1]]]
    IN (CASE boundary = "fill" -> << << All, All, Scalar(fillvalue) >> >>
          [] boundary = "wrap" ->
               << << UpTo(dn), UpTo(dm), d(From(n - dn), From(m - dm)) >>,
                  << UpTo(dn), Between(dm, dm + m), d(From(n - dn), All) >>,
                  << UpTo(dn), From(dm + m), d(From(n - dn), UpTo(dm)) >>,
                  << From(n + dn), UpTo(dm), d(UpTo(dn), From(m - dm)) >>,
                  << From(n + dn), Between(dm, dm + m), d(UpTo(dn), All) >>,
                  << From(n + dn), From(dm + m), d(UpTo(dn), UpTo(dm)) >>,
                  << Between(dn, dn + n), UpTo(dm), d(All, From(m - dm)) >>,
                  << Between(dn, dn + n), From(dm + m), d(All, UpTo(dm)) >> >>
          [] boundary = "symm" ->
               << << UpTo(dn), UpTo(dm), d(DownTo(dn), DownTo(dm)) >>,
                  << UpTo(dn), Between(dm, dm + m), d(DownTo(dn), All) >>,
                  << UpTo(dn), From(dm + m), d(DownTo(dn), DownFrom(m - dm)) >>,
                  << From(n + dn), UpTo(dm), d(DownFrom(n - dn), DownTo(dm)) >>,
                  << From(n + dn), Between(dm, dm + m), d(DownFrom(n - dn), All) >>,
                  << From(n + dn), From(dm + m), d(DownFrom(n - dn), DownFrom(m - dm)) >>,
                  << Between(dn, dn + n), UpTo(dm), d(All, DownTo(dm)) >>,
                  << Between(dn, dn + n), From(dm + m), d(All, DownFrom(m - dm)) >> >>
          [] OTHER -> << >>)
       \o << << Between(dn, dn + n), Between(dm, dm + m), whole >> >>

\* convolve2d(data, kernal, boundary, fillvalue): conv, or the error raised
convolve2d(data, kernal, dtype, boundary, fillvalue) ==
    LET n == Rows(data)
        m == Cols(data)
        nk == Rows(kernal.num)
        mk == Cols(kernal.num)
        zeros == [i \in 0..(n + nk - 1) |-> [j \in 0..(m + mk - 1) |-> 0]]
        new_data == SetItems(zeros, n + nk, m + mk,
                             Padding(data, n, m, nk, mk, boundary, fillvalue))
    IN IF "error" \in DOMAIN new_data THEN new_data
       ELSE [conv |-> perform_conv(new_data.array, n + nk, m + mk, kernal, dtype)]

\* conv = convolve2d(data, kernal, boundary, fillvalue)
Convolve2d ==
    /\ pc = "call"
    /\ args.fn = "convolve2d"
    /\ LET made == convolve2d(args.data, args.kernal, args.dtype, args.boundary,
                              args.fillvalue)
       IN /\ ret' = made
          /\ pc' = IF "error" \in DOMAIN made THEN "raise" ELSE "return"
    /\ UNCHANGED <<args, rng>>

\* the kernels, whole or in halves, no larger than the data
KernalsFor(data) ==
    {[num |-> k, den |-> d] :
        k \in {k \in Kernels : Rows(k) <= Rows(data) /\ Cols(k) <= Cols(data)},
        d \in 1..2}

ConvolveInit ==
    /\ pc = "call"
    /\ \E s \in Shapes : \E data \in Array(s[1], s[2], 0..1) :
          \E kernal \in KernalsFor(data), dtype \in {"int64", "float64"},
             boundary \in {"fill", "wrap", "symm"}, fillvalue \in 0..1 :
                args = [fn |-> "convolve2d", data |-> data, kernal |-> kernal,
                        dtype |-> dtype, boundary |-> boundary, fillvalue |-> fillvalue]
    /\ ret = NoValue
    /\ rng = NoValue

ConvolveNext == Convolve2d

ConvolveSpec == ConvolveInit /\ [][ConvolveNext]_vars

(***************************************************************************)
(* Re-exploration of the second-pass thresholds on a stored checkpoint:    *)
(* dda_eeasm_part2_mpl and dda_postprocess of algorithms.py.  The          *)
(* checkpoint is a dictionary; its arrays are the objects the function     *)
(* hands to the steps, so what a step writes into one of them stays in the *)
(* dictionary for the next run.                                            *)
(***************************************************************************)
MaxRuns == 2

Part2Called == args.fn = "dda_eeasm_part2_mpl"

\* layer_mask = combine_layers_from_mask(cloud_mask);
\* num_cloud_layers, layer_bot, layer_top = get_layer_boundaries(layer_mask, heights)
dda_postprocess(cloud_mask, heights) ==
    LET layer_mask == combine_layers_from_mask(cloud_mask)
        layers == get_layer_boundaries(layer_mask, heights)
    IN [num_cloud_layers |-> layers.num_cloud_layers,
        layer_bot |-> layers.layer_bot,
        layer_top |-> layers.layer_top,
        layer_mask |-> layer_mask]

\* one run of dda_eeasm_part2_mpl: what it raises or returns, and the
\* checkpoint dictionary after the run (calc_threshold works on the
\* dictionary's own density2 array)
dda_eeasm_part2_mpl(firstpass_dat, heights, threshold_args2, min_cluster_size, remove_clusters_in_pass) ==
    LET data_mask == firstpass_dat.data_mask
        cloud_mask1 == firstpass_dat.cloud_mask1
        call == calc_threshold(firstpass_dat.density2, data_mask, threshold_args2)
        density2 == call.density
        after == [firstpass_dat EXCEPT !.density2 = density2]
    IN IF call.raises
       THEN [raises |-> TRUE, error |-> "AxisError", firstpass_dat |-> after]
       ELSE LET thresholds2 == call.thresholds
                cloud_mask2 ==
                    calc_cloud_mask(density2, thresholds2, MaskBuilderMask(data_mask),
                                    PassFilterSize(remove_clusters_in_pass,
                                                   min_cluster_size))
                cloud_mask_combined ==
                    combine_masks(<<cloud_mask1, cloud_mask2>>,
                                  UnionFilterSize(remove_clusters_in_pass,
                                                  min_cluster_size))
                postproc == dda_postprocess(cloud_mask_combined, heights)
            IN [raises |-> FALSE,
                firstpass_dat |-> after,
                result |-> Bind(postproc,
                                [thresholds2 |-> thresholds2,
                                 cloud_mask2 |-> cloud_mask2,
                                 cloud_mask_combined |-> cloud_mask_combined])]

\* the entries of the checkpoint that dda_eeasm_part2_mpl reads, as the
\* direct-exclusion branch of dda_eeasm_part1 computes them from the data and
\* the first-pass cloud mask:
\*   data_mask = np.logical_or(data_mask, cloud_mask1)
\*   density2 = calc_density(data, data_mask, kernal2, density_args2)
ProducedCheckpoint(data, cloud_mask1, kernal_args2) ==
    LET data_mask == Pass2DataMask(FALSE, IsMissing(data), cloud_mask1)
    IN [density2 |-> convolve_masked(Magnitudes(data), data_mask,
                                     Gaussian(kernal_args2), EmptyKwargs),
        data_mask |-> data_mask,
        cloud_mask1 |-> cloud_mask1]

\* the caller runs dda_eeasm_part2_mpl on the checkpoint it holds
Part2Run ==
    /\ pc = "call"
    /\ Part2Called
    /\ LET run == dda_eeasm_part2_mpl(args.firstpass_dat, args.heights,
                                      args.threshold_args2, args.min_cluster_size,
                                      args.remove_clusters_in_pass)
       IN /\ args' = [args EXCEPT !.firstpass_dat = run.firstpass_dat,
                                  !.runs = @ + 1]
          /\ IF run.raises
             THEN /\ ret' = [error |-> run.error]
                  /\ pc' = "raise"
             ELSE /\ ret' = [result |-> run.result]
                  /\ pc' = "return"
    /\ UNCHANGED rng

\* the second-pass threshold parameters a caller explores
Part2ThresholdArgs ==
    PipelineThresholdArgs \cup
    { [downsample |-> 1, segment_length |-> 0, bias |-> 0, sensitivity |-> 1,
       quantile |-> 50] }

\* the caller looks at the outcome and tries other threshold parameters on
\* the same checkpoint object
Reexplore ==
    /\ pc \in {"return", "raise"}
    /\ Part2Called
    /\ args.runs < MaxRuns
    /\ \E threshold_args2 \in Part2ThresholdArgs :
          args' = [args EXCEPT !.threshold_args2 = threshold_args2]
    /\ pc' = "call"
    /\ UNCHANGED <<ret, rng>>

\* the first-pass cloud masks of a data matrix: no missing pixel is cloudy
CloudMasksOf(data) ==
    {c \in Array(Rows(data), Cols(data), BOOLEAN) :
        \A i \in DOMAIN data : \A j \in DOMAIN data[0] :
            c[i][j] => ~IsNaN(data[i][j])}

Part2Init ==
    /\ pc = "call"
    /\ \E s \in PipelineShapes, cluster_args \in ClusterArgs,
          threshold_args2 \in Part2ThresholdArgs, kernal_args2 \in {[sigma |-> 0], [sigma |-> 1]} :
          \E data \in Array(s[1], s[2], PipelineCells) :
             \E cloud_mask1 \in CloudMasksOf(data) :
                LET checkpoint == ProducedCheckpoint(data, cloud_mask1, kernal_args2)
                IN args = [fn |-> "dda_eeasm_part2_mpl",
                           produced |-> checkpoint,
                           firstpass_dat |-> checkpoint,
                           heights |-> [j \in 0..(s[2] - 1) |-> j],
                           threshold_args2 |-> threshold_args2,
                           min_cluster_size |-> cluster_args.min_cluster_size,
                           remove_clusters_in_pass |-> cluster_args.remove_clusters_in_pass,
                           runs |-> 0]
    /\ ret = NoValue
    /\ rng = NoValue

Part2Next == Part2Run \/ Reexplore

Part2Spec == Part2Init /\ [][Part2Next]_vars

(***************************************************************************)
(* Properties of the density stage.                                         *)
(***************************************************************************)
DensityReturned == pc = "return" /\ args.fn = "calc_density"

BoundaryOf(kwargs) == IF "boundary" \in DOMAIN kwargs THEN kwargs["boundary"] ELSE "symm"
FillValueOf(kwargs) == IF "fillvalue" \in DOMAIN kwargs THEN kwargs["fillvalue"] ELSE 0

NonNegative(kernal) == \A p \in Pixels(kernal) : kernal[p[1]][p[2]] >= 0
KernelSum(kernal) == SumOver(Pixels(kernal), [p \in Pixels(kernal) |-> kernal[p[1]][p[2]]])

\* the data with 0 at the masked pixels, and the complement of the mask
ZeroedData ==
    [i \in DOMAIN args.data |-> [j \in DOMAIN args.data[0] |->
        IF args.data_mask[i][j] THEN 0 ELSE args.data[i][j]]]
ValidField ==
    [i \in DOMAIN args.data |-> [j \in DOMAIN args.data[0] |->
        IF args.data_mask[i][j] THEN 0 ELSE 1]]
ConvPolicy ==
    [mode |-> "same", boundary |-> BoundaryOf(args.density_args),
     fillvalue |-> FillValueOf(args.density_args)]
DataField == ScipyConvolve2d(ZeroedData, args.kernal, ConvPolicy)
WeightField == ScipyConvolve2d(ValidField, args.kernal, ConvPolicy)

\* C1: at every pixel the density is (convolution of the mask-zeroed data) /
\* (convolution of the complement of the mask) where that weight is > 0, and
\* exactly 0 where the weight is 0, for every non-negative kernel.
C1_MaskedConvolution ==
    (DensityReturned /\ NonNegative(args.kernal)) =>
        \A p \in Pixels(args.data) :
            ret.density[p[1]][p[2]] =
                IF WeightField[p[1]][p[2]] > 0
                THEN Frac(DataField[p[1]][p[2]], WeightField[p[1]][p[2]])
                ELSE Real(0)

\* a returned density with a pixel of weight 0 beside a masked pixel holding a
\* non-zero value, and a pixel of positive weight and non-zero density
C1_Witness ==
    /\ DensityReturned
    /\ NonNegative(args.kernal)
    /\ \E p \in Pixels(args.data) :
          /\ WeightField[p[1]][p[2]] = 0
          /\ args.data_mask[p[1]][p[2]] /\ args.data[p[1]][p[2]] > 0
          /\ args.kernal[(Rows(args.kernal) - 1) \div 2][(Cols(args.kernal) - 1) \div 2] > 0
    /\ \E q \in Pixels(args.data) :
          WeightField[q[1]][q[2]] > 0 /\ DataField[q[1]][q[2]] > 0

AllValid == \A p \in Pixels(args.data) : ~args.data_mask[p[1]][p[2]]

\* the plain convolution of the data under the call's boundary policy
PlainConv == ScipyConvolve2d(args.data, args.kernal, ConvPolicy)

\* the kernel footprint of pixel (i, j) lies inside the array
FootprintInside(i, j) ==
    \A p \in Pixels(args.kernal) :
        /\ i + ((Rows(args.kernal) - 1) \div 2) - p[1] \in 0..(Rows(args.data) - 1)
        /\ j + ((Cols(args.kernal) - 1) \div 2) - p[2] \in 0..(Cols(args.data) - 1)

\* the kernel weight of pixel (i, j): 1 per kernel entry over the array, the
\* fill value per kernel entry over the padding
PaddedWeight(i, j) ==
    SumOver(Pixels(args.kernal),
        [p \in Pixels(args.kernal) |->
            args.kernal[p[1]][p[2]] *
            (IF /\ i + ((Rows(args.kernal) - 1) \div 2) - p[1] \in 0..(Rows(args.data) - 1)
                /\ j + ((Cols(args.kernal) - 1) \div 2) - p[2] \in 0..(Cols(args.data) - 1)
             THEN 1 ELSE FillValueOf(args.density_args))])

KernelLarger ==
    Rows(args.kernal) > Rows(args.data) \/ Cols(args.kernal) > Cols(args.data)

\* C2 as stated: with no invalid pixel the density is the plain convolution
\* with the unit-sum kernel under the same boundary policy, at every pixel
\* (stated here for kernels no larger than the data).
C2_PlainNormalisedEverywhere ==
    (DensityReturned /\ AllValid /\ KernelSum(args.kernal) > 0 /\ ~KernelLarger) =>
        \A p \in Pixels(args.data) :
            ret.density[p[1]][p[2]] = Frac(PlainConv[p[1]][p[2]], KernelSum(args.kernal))

\* C2 amended: with no invalid pixel and a kernel of positive sum, the density
\* is the plain convolution with the unit-sum kernel at every pixel under wrap
\* and symm, and under fill at every pixel whose kernel footprint lies inside
\* the array; at the other pixels under fill the plain convolution is divided
\* by the padded kernel weight (when that is > 0) and not by the kernel sum.
C2_PlainNormalisedAmended ==
    (DensityReturned /\ AllValid /\ KernelSum(args.kernal) > 0) =>
        \A p \in Pixels(args.data) :
            IF BoundaryOf(args.density_args) \in {"wrap", "symm"} \/ FootprintInside(p[1], p[2])
            THEN ret.density[p[1]][p[2]] =
                    Frac(PlainConv[p[1]][p[2]], KernelSum(args.kernal))
            ELSE ret.density[p[1]][p[2]] =
                    IF PaddedWeight(p[1], p[2]) > 0
                    THEN Frac(PlainConv[p[1]][p[2]], PaddedWeight(p[1], p[2]))
                    ELSE Real(PlainConv[p[1]][p[2]])

\* an all-valid zero-filled call with a pixel inside and a pixel at the edge,
\* where the edge density differs from the plain unit-sum convolution
C2_Witness ==
    /\ DensityReturned /\ AllValid /\ KernelSum(args.kernal) > 0
    /\ BoundaryOf(args.density_args) = "fill"
    /\ \E p \in Pixels(args.data) :
          FootprintInside(p[1], p[2]) /\ PlainConv[p[1]][p[2]] > 0
    /\ \E q \in Pixels(args.data) :
          /\ ~FootprintInside(q[1], q[2])
          /\ ret.density[q[1]][q[2]] # Frac(PlainConv[q[1]][q[2]], KernelSum(args.kernal))

\* C10: the density stage fails fast with an error, computing nothing, when
\* the kernel is larger than the data matrix in either dimension.
C10_KernelLargerFailsFast ==
    (args.fn = "calc_density" /\ KernelLarger /\ pc # "call") =>
        (pc = "raise" /\ ret = NoValue)

(***************************************************************************)
(* Properties of the threshold stage.                                       *)
(***************************************************************************)
ThresholdCalled == args.fn = "calc_threshold" /\ pc # "call"
ThresholdReturned == args.fn = "calc_threshold" /\ pc = "return"

\* the rows xleft..xright of profile xx's window, clipped to 0..n_prof-1
ClippedWindowRows(xx, n_prof, kw) ==
    Range(Max(0, XLeft(xx, kw)), Min(XRight(xx, kw), n_prof - 1) + 1,
          2 * kw.downsample + 1)

\* bias + sensitivity * quantile of the clipped window of profile xx
ClippedThreshold(xx) ==
    LET kw == args.threshold_args
        matrix == DownsampleMatrix(args.density, args.mask_given, args.data_mask,
                                   kw.downsample)
    IN FracAdd(Real(kw.bias),
               FracMul(Real(kw.sensitivity),
                       NanQuantile(Flatten(matrix,
                                           ClippedWindowRows(xx, Rows(matrix), kw),
                                           Range(0, Cols(matrix), 1)),
                                   kw.quantile)))

\* C3: calc_threshold returns one threshold for every profile 0..n-1 without
\* raising, also when a window extends past index 0 or n-1; the window is
\* then clipped to [0, n-1] and the threshold is bias + sensitivity * quantile
\* of the clipped window.
C3_ThresholdForEveryProfile ==
    ThresholdCalled =>
        /\ pc = "return"
        /\ DOMAIN ret.thresholds = 0..(Rows(args.density) - 1)
        /\ \A xx \in 0..(Rows(args.density) - 1) : ret.thresholds[xx] = ClippedThreshold(xx)

\* the later call's threshold of profile xx is not below the earlier call's
NotDecreased(xx) ==
    \/ IsNaN(ret.earlier[xx]) /\ IsNaN(ret.thresholds[xx])
    \/ FracLeq(ret.earlier[xx], ret.thresholds[xx])

CalledAgain == ThresholdReturned /\ "earlier" \in DOMAIN ret

\* C4 as stated: for any fixed density, mask, downsample, segment_length, bias
\* and sensitivity, and quantiles q1 <= q2, every threshold returned with q2
\* is >= the threshold of the same profile with q1 (a threshold that is NaN
\* in both calls is let pass).
C4_QuantileMonotone ==
    (CalledAgain /\ ret.earlier_quantile <= args.threshold_args.quantile) =>
        \A xx \in DOMAIN ret.thresholds : NotDecreased(xx)

\* C4 amended: the same for every sensitivity >= 0, a profile whose window is
\* entirely invalid having the threshold NaN in both calls.
C4_QuantileMonotoneAmended ==
    (/\ CalledAgain
     /\ ret.earlier_quantile <= args.threshold_args.quantile
     /\ args.threshold_args.sensitivity >= 0) =>
        \A xx \in DOMAIN ret.thresholds : NotDecreased(xx)

\* two calls that returned, the second with the larger quantile, a positive
\* sensitivity and a strictly larger threshold for some profile
C4_Witness ==
    /\ CalledAgain
    /\ ret.earlier_quantile < args.threshold_args.quantile
    /\ args.threshold_args.sensitivity > 0
    /\ \E xx \in DOMAIN ret.thresholds : FracLt(ret.earlier[xx], ret.thresholds[xx])
    /\ \E xx \in DOMAIN ret.thresholds : ret.earlier[xx] = ret.thresholds[xx]

\* C11: calc_threshold never modifies the density array passed in by the
\* caller: over every call, for every downsample value (0 included) and every
\* data_mask (masked pixels included), the caller's density array holds the
\* same values after the call as before it.
C11_DensityNotModified == [][args.fn = "calc_threshold" => args.density' = args.density]_vars

\* every sample of the clipped window of profile xx is invalid: flagged by
\* data_mask, or NaN in the downsampled field
WindowAllInvalid(xx) ==
    LET kw == args.threshold_args
        field == Downsampled(args.density, kw.downsample)
        rows == ClippedWindowRows(xx, Rows(args.density), kw)
    IN \A k \in 1..Len(rows) : \A yy \in 0..(Cols(args.density) - 1) :
          \/ args.mask_given /\ args.data_mask[rows[k]][yy]
          \/ IsNaN(field[rows[k]][yy])

\* C20: calc_threshold never raises on a degenerate window: in a call with a
\* window that is entirely invalid (masked or NaN) the call returns, the
\* threshold of a profile is NaN if and only if every sample of its window is
\* invalid, and all other profiles receive finite thresholds.
C20_DegenerateWindowIsNaN ==
    (ThresholdCalled /\ \E xx \in DOMAIN args.density : WindowAllInvalid(xx)) =>
        /\ pc = "return"
        /\ \A xx \in DOMAIN args.density :
              IsNaN(ret.thresholds[xx]) <=> WindowAllInvalid(xx)

\* a call with downsampling has run
Downsampling ==
    /\ args.fn = "calc_threshold"
    /\ pc # "call"
    /\ args.threshold_args.downsample > 0

\* the maximum of the non-NaN values of density over x-d..x+d, y-d..y+d
\* clipped to the array; NaN when all of them are NaN
NeighbourhoodMax(density, d) ==
    [xx \in DOMAIN density |-> [yy \in DOMAIN density[0] |->
        NanMax(Flatten(density,
                       Range(Max(0, xx - d), Min(Rows(density), xx + d + 1), 1),
                       Range(Max(0, yy - d), Min(Cols(density), yy + d + 1), 1)))]]

\* C24: with downsample = d > 0, calc_threshold replaces each pixel (x, y) by
\* the maximum of the non-invalid density values over the full (2d+1) x (2d+1)
\* neighbourhood x-d..x+d, y-d..y+d clipped to the array, the values at x+d
\* and at y+d included.
C24_FullNeighbourhoodMax ==
    Downsampling =>
        Downsampled(args.density, args.threshold_args.downsample)
            = NeighbourhoodMax(args.density, args.threshold_args.downsample)

\* the density field with 0 at every position data_mask flags
ZeroUnderMask(density, mask_given, data_mask) ==
    [xx \in DOMAIN density |-> [yy \in DOMAIN density[0] |->
        IF mask_given /\ data_mask[xx][yy] THEN Real(0) ELSE density[xx][yy]]]

\* C25: the thresholds returned do not depend on the density values at the
\* positions flagged in data_mask, for every downsample value: they are those
\* of the field that agrees at every unmasked position and is 0 under the mask.
C25_MaskedValuesDoNotCount ==
    ThresholdReturned =>
        ret.thresholds =
            Thresholds(DownsampleMatrix(ZeroUnderMask(args.density, args.mask_given,
                                                      args.data_mask),
                                        args.mask_given, args.data_mask,
                                        args.threshold_args.downsample),
                       args.threshold_args)

(***************************************************************************)
(* Properties of the mask combination.                                      *)
(***************************************************************************)
CombineReturned == args.fn = "combine_masks" /\ pc = "return"

\* pixel p is set in at least one of the masks
InUnion(p) == \E k \in 1..Len(args.masks) : args.masks[k][p[1]][p[2]]
UnionMask ==
    [i \in DOMAIN args.masks[1] |-> [j \in DOMAIN args.masks[1][0] |-> InUnion(<<i, j>>)]]

\* C5: with remove_small_clusters = s > 0 every connected component of the
\* union with fewer than s pixels is cleared and every component with s or
\* more pixels is kept unchanged; with s = 0 nothing is removed; no pixel
\* outside the union is ever set.
C5_SmallClustersRemoved ==
    CombineReturned =>
        \A p \in Pixels(args.masks[1]) :
            LET comp == Component(UnionMask, p)
                kept == ret.combined_mask[p[1]][p[2]]
            IN IF ~InUnion(p) THEN ~kept
               ELSE IF args.remove_small_clusters > 0
                       /\ Cardinality(comp) < args.remove_small_clusters
                    THEN ~kept
                    ELSE kept

\* a union holding a component of exactly s pixels, which is kept, and a
\* component of fewer than s pixels, which is cleared
C5_Witness ==
    /\ CombineReturned
    /\ args.remove_small_clusters > 1
    /\ \E p \in Pixels(args.masks[1]) :
          /\ InUnion(p)
          /\ Cardinality(Component(UnionMask, p)) = args.remove_small_clusters
          /\ ret.combined_mask[p[1]][p[2]]
    /\ \E q \in Pixels(args.masks[1]) :
          /\ InUnion(q)
          /\ Cardinality(Component(UnionMask, q)) < args.remove_small_clusters
          /\ ~ret.combined_mask[q[1]][q[2]]

\* C6: without cluster filtering combine_masks returns the element-wise OR of
\* any number (>= 1) of masks; in particular combine_masks((A, A)) = A.
C6_LogicalOr ==
    (CombineReturned /\ args.remove_small_clusters = 0) =>
        /\ \A p \in Pixels(args.masks[1]) : ret.combined_mask[p[1]][p[2]] <=> InUnion(p)
        /\ (Len(args.masks) = 2 /\ args.masks[1] = args.masks[2]) =>
                ret.combined_mask = args.masks[1]

\* three masks combined, the first two the same mask A with set and unset
\* pixels, the third setting a pixel that A leaves unset
C6_Witness ==
    /\ CombineReturned /\ args.remove_small_clusters = 0
    /\ Len(args.masks) = 3
    /\ args.masks[1] = args.masks[2]
    /\ \E p, q \in Pixels(args.masks[1]) :
          /\ args.masks[1][p[1]][p[2]] /\ ~args.masks[3][p[1]][p[2]]
          /\ ~args.masks[1][q[1]][q[2]] /\ args.masks[3][q[1]][q[2]]
          /\ ret.combined_mask[p[1]][p[2]] /\ ret.combined_mask[q[1]][q[2]]

(***************************************************************************)
(* Properties of the ground detection.                                      *)
(***************************************************************************)
GroundCalled == args.fn = "get_ground_bin" /\ pc # "call"
GroundReturned == args.fn = "get_ground_bin" /\ pc = "return"

StepUp(heights) == \E j \in 0..(Size(heights) - 2) : heights[j + 1] > heights[j]
StepDown(heights) == \E j \in 0..(Size(heights) - 2) : heights[j + 1] < heights[j]

\* the spacing of the height bins
BinSpacing == Abs(args.heights[1] - args.heights[0])

\* bin j of profile i lies within dem_tol bins of the profile's DEM elevation
InDemBand(i, j) == Abs(args.heights[j] - args.dem[i]) <= args.dem_tol * BinSpacing

\* C7: for every profile with no cloudy pixel in the elevation-model
\* tolerance band, the returned ground bin is the index of the height bin at
\* the DEM elevation, for ascending and descending heights alike (stated for
\* two or more bins and a DEM elevation that is one of the bin heights).
C7_FallbackIsDemBin ==
    (GroundReturned /\ Size(args.heights) >= 2) =>
        \A i \in DOMAIN args.dem :
            \A b \in DOMAIN args.heights :
                (/\ args.heights[b] = args.dem[i]
                 /\ \A j \in DOMAIN args.heights : ~(args.cloud_mask[i][j] /\ InDemBand(i, j)))
                => ret.ground_bin[i] = b

\* the density and the returned bin of profile i in ascending-height coordinates
AscendingDensity(i) == IF ret.flipped THEN FlipVector(args.density[i]) ELSE args.density[i]
AscendingBin(i) ==
    IF ret.flipped THEN Cols(args.density) - 1 - ret.ground_bin[i] ELSE ret.ground_bin[i]
Candidates(i) == {j \in DOMAIN ret.possible_ground[i] : ret.possible_ground[i][j]}

\* C8: for every profile with a cloudy candidate pixel, the returned ground
\* bin is a cloudy candidate pixel of the profile, its density is the maximum
\* over the candidates, and it is the lowest such candidate in
\* ascending-height coordinates.
C8_GroundBinIsBestCandidate ==
    GroundReturned =>
        \A i \in DOMAIN args.dem :
            Candidates(i) # {} =>
                /\ AscendingBin(i) \in Candidates(i)
                /\ \A k \in Candidates(i) :
                      /\ FracLeq(AscendingDensity(i)[k], AscendingDensity(i)[AscendingBin(i)])
                      /\ AscendingDensity(i)[k] = AscendingDensity(i)[AscendingBin(i)]
                            => AscendingBin(i) <= k

\* C9: for a height vector with both an increasing and a decreasing step
\* get_ground_bin raises and returns nothing, no bin index and no candidate
\* region having been computed.
C9_UnorderedHeightsRaise ==
    (GroundCalled /\ StepUp(args.heights) /\ StepDown(args.heights)) =>
        /\ pc = "raise"
        /\ ret = [error |-> "ValueError"]

\* a call with unordered heights and a cloudy pixel that has raised
C9_Witness ==
    /\ GroundCalled /\ StepUp(args.heights) /\ StepDown(args.heights)
    /\ pc = "raise"
    /\ \E i \in DOMAIN args.dem : \E j \in DOMAIN args.heights : args.cloud_mask[i][j]

\* the bin of the caller's orientation at which the function holds bin j
InternalBin(j) == IF ret.flipped THEN Size(args.heights) - 1 - j ELSE j

\* C26: the candidate region of a profile consists of exactly the bins whose
\* height is within dem_tol bin spacings of the profile's elevation-model
\* value, for every dem value, and a cloudy pixel outside that band is never
\* treated as a ground candidate.
C26_CandidatesAreDemBand ==
    (GroundReturned /\ Size(args.heights) >= 2) =>
        \A i \in DOMAIN args.dem : \A j \in DOMAIN args.heights :
            ret.possible_ground[i][InternalBin(j)]
                <=> (args.cloud_mask[i][j] /\ InDemBand(i, j))

\* what get_ground_bin returns for the same scene with the height axis
\* reversed
Mirrored(platform) ==
    get_ground_bin(FlipAxis1(args.density), FlipAxis1(args.cloud_mask),
                   FlipVector(args.heights), args.dem, args.dem_tol, platform)

InRange(b) == b \in 0..(Size(args.heights) - 1)

\* C27: for uniformly spaced heights, ascending and descending, the returned
\* ground_height of every profile equals heights[ground_bin] whenever
\* ground_bin is within 0..m-1, and the same scene with the height axis
\* reversed yields the mirrored bin m-1-b and the same ground height.
C27_HeightOfBinAndMirror ==
    (GroundReturned /\ Size(args.heights) >= 2) =>
        \A i \in DOMAIN args.dem :
            /\ InRange(ret.ground_bin[i]) =>
                  ret.ground_height[i] = Real(args.heights[ret.ground_bin[i]])
            /\ \A platform \in PlatformsFor(FlipVector(args.heights)) :
                  LET mirrored == Mirrored(platform)
                  IN InRange(ret.ground_bin[i]) =>
                        /\ InRange(mirrored.ground_bin[i])
                        /\ mirrored.ground_bin[i] = Size(args.heights) - 1 - ret.ground_bin[i]
                        /\ mirrored.ground_height[i] = ret.ground_height[i]

(***************************************************************************)
(* Properties of the noise infill.                                          *)
(***************************************************************************)
NoiseReturned == args.fn = "replace_mask_with_noise" /\ pc = "return"
NoiseCalledAgain == NoiseReturned /\ "earlier" \in DOMAIN ret

\* C16: replace_mask_with_noise returns a new array that equals the input data
\* at every position where mask is false, and leaves the caller's data array
\* unchanged; only positions where mask is true may differ.
C16_OnlyMaskedReplaced ==
    [][(args.fn = "replace_mask_with_noise" /\ pc = "call" /\ pc' = "return") =>
          /\ args.data' = args.data
          /\ \A p \in Pixels(args.data) :
                ~args.mask[p[1]][p[2]] => ret.noisy_data'[p[1]][p[2]] = args.data[p[1]][p[2]]]_vars

\* a call that returned with a kept pixel, and a masked pixel whose value the
\* noise changed
C16_Witness ==
    /\ NoiseReturned
    /\ \E p \in Pixels(args.data) : ~args.mask[p[1]][p[2]]
    /\ \E p \in Pixels(args.data) :
          args.mask[p[1]][p[2]] /\ ret.noisy_data[p[1]][p[2]] # args.data[p[1]][p[2]]

\* C17: two calls with the same data, mask, mean, sd, vmin and the same
\* non-None seed return identical arrays, whatever random draws are made
\* between the two calls.
C17_SeededReproducible ==
    (NoiseCalledAgain /\ args.seed # NoSeed) => ret.noisy_data = ret.earlier

\* two seeded calls with a draw from the global generator between them, on
\* data with a masked pixel that the noise changed
C17_Witness ==
    /\ NoiseCalledAgain
    /\ args.seed # NoSeed
    /\ rng.global > 0
    /\ ret.noisy_data = ret.earlier
    /\ \E p \in Pixels(args.data) :
          args.mask[p[1]][p[2]] /\ ret.noisy_data[p[1]][p[2]] # args.data[p[1]][p[2]]

(***************************************************************************)
(* Properties of the two-pass pipeline.                                     *)
(***************************************************************************)
Stages == {StageOrder[k] : k \in 1..Len(StageOrder)}
Running == PipelineCalled /\ "stages" \in DOMAIN ret
StageDone(stage) == Running /\ Len(ret.stages) >= StageIndex(stage)
PipelineReturned(fn) == args.fn = fn /\ pc = "return"
AnyPixel(mask) == \E p \in Pixels(mask) : mask[p[1]][p[2]]

\* C12: in every run of dda_atl, in both mask-update modes, no pixel of
\* cloud_mask1, cloud_mask2 or the combined cloud mask lies where the input
\* data is missing (NaN).
C12_NoCloudOnMissingData ==
    (Running /\ args.fn = "dda_atl") =>
        \A name \in {"cloud_mask1", "cloud_mask2", "cloud_mask_combined"} \cap DOMAIN ret :
            \A p \in Pixels(args.data) :
                IsNaN(args.data[p[1]][p[2]]) => ~ret[name][p[1]][p[2]]

\* a run that returned with a cloudy pixel in the combined mask, and a missing
\* pixel whose first-pass density lies above the threshold of its profile
C12_Witness ==
    /\ Running
    /\ PipelineReturned("dda_atl")
    /\ AnyPixel(ret.cloud_mask_combined)
    /\ \E p \in Pixels(args.data) :
          /\ IsNaN(args.data[p[1]][p[2]])
          /\ FracLt(ret.thresholds1[p[1]], ret.density1[p[1]][p[2]])

\* the noise infill was applied: the noise statistics were taken, data_mask is
\* the is-missing mask, and the second density is taken from a copy of the
\* data that differs from it on first-pass cloud pixels only
NoiseInfilled ==
    /\ {"mean", "data_mask"} \subseteq DOMAIN ret
    /\ ret.data_mask = IsMissing(args.data)
    /\ pc = "Pass2Density" =>
          /\ "data_with_noise" \in DOMAIN ret
          /\ \A p \in Pixels(args.data) :
                ~ret.cloud_mask1[p[1]][p[2]] =>
                    ret.data_with_noise[p[1]][p[2]] = args.data[p[1]][p[2]]

\* the direct exclusion was applied: no noise was made, data_mask is the
\* is-missing mask united with the first-pass cloud mask, and the second
\* density is taken from the data as they are
MaskWidened ==
    /\ "mean" \notin DOMAIN ret
    /\ "data_with_noise" \notin DOMAIN ret
    /\ "data_mask" \in DOMAIN ret
    /\ ret.data_mask = LogicalOr(IsMissing(args.data), ret.cloud_mask1)
    /\ pc = "Pass2Threshold" =>
          ret.density2 = convolve_masked(Magnitudes(args.data), ret.data_mask, ret.kernal2,
                                         args.density_args2)

\* the first pass is complete and the statements between the passes have run
BetweenPassesRun == StageDone("Pass1Mask") /\ pc # "MaskUpdate"

\* the noise estimate finds the quantile it reads in kernal_args
QuantileGiven == args.fill_clouds_with_noise => "quantile" \in DOMAIN args.kernal_args

\* C13: in each run of dda_atl and of dda_eeasm_part1 exactly one of the two
\* mask-update strategies is applied between the passes: the noise infill with
\* the invalid-data mask left equal to the is-missing mask, or the widening of
\* the invalid-data mask with the data left unchanged; never both and never
\* neither.
C13_ExactlyOneMaskUpdate ==
    (BetweenPassesRun /\ QuantileGiven) =>
        \/ NoiseInfilled /\ ~MaskWidened
        \/ MaskWidened /\ ~NoiseInfilled

\* C14: dda_atl executes its stages in the fixed order, each once, never
\* returning to an earlier stage; a stage reads only local variables that
\* completed stages have bound (ground detection the first-pass density and
\* the combined mask); a run that returns has completed every stage.
C14_StagesInOrder ==
    (Running /\ args.fn = "dda_atl") =>
        /\ Len(ret.stages) <= Len(StageOrder)
        /\ \A k \in 1..Len(ret.stages) : ret.stages[k] = StageOrder[k]
        /\ pc \in Stages =>
              /\ pc = StageOrder[Len(ret.stages) + 1]
              /\ Consumes(pc, args.fill_clouds_with_noise) \subseteq DOMAIN ret
        /\ pc = "return" => ret.stages = StageOrder

\* a run of dda_atl that completed all its stages and found a cloud layer
C14_Witness ==
    /\ Running
    /\ PipelineReturned("dda_atl")
    /\ ret.stages = StageOrder
    /\ \E i \in DOMAIN args.data : ret.num_cloud_layers[i] > 0

\* a call of dda_eeasm_part1 whose first pass completed has come to its end
Part1Ended ==
    /\ Running
    /\ args.fn = "dda_eeasm_part1"
    /\ StageDone("Pass1Mask")
    /\ pc \in {"return", "raise"}

\* C15: dda_eeasm_part1 returns a checkpoint that contains exactly the
\* first-pass kernel, density, threshold and mask and the invalid-data mask
\* widened by the first-pass cloud mask, in both mask-update modes.
C15_CheckpointFirstPassOnly ==
    (Part1Ended /\ QuantileGiven) =>
        /\ pc = "return"
        /\ DOMAIN ret.result =
              {"kernal1", "density1", "thresholds1", "cloud_mask1", "data_mask"}
        /\ ret.result.data_mask =
              LogicalOr(IsMissing(args.data), ret.result.cloud_mask1)

\* C18: two runs of the pipeline with fill_clouds_with_noise enabled, the same
\* inputs, the same parameters and the same seed produce identical outputs.
C18_RunsReproducible ==
    (Running /\ pc = "return" /\ "earlier" \in DOMAIN ret) => ret.result = ret.earlier

\* the cluster filtering a configuration selects: in each pass, on the union
FilterCombinations ==
    { [pass |-> TRUE, union |-> FALSE], [pass |-> FALSE, union |-> TRUE],
      [pass |-> TRUE, union |-> TRUE] }
Configurations == [remove_clusters_in_pass : BOOLEAN, min_cluster_size : 0..MaxPix]
Selects(cfg, combination) ==
    /\ combination.pass <=>
          PassFilterSize(cfg.remove_clusters_in_pass, cfg.min_cluster_size) > 0
    /\ combination.union <=>
          UnionFilterSize(cfg.remove_clusters_in_pass, cfg.min_cluster_size) > 0

\* C19: the configuration of dda_atl can select each of the three
\* cluster-filtering combinations: in each pass only, on the union only, and
\* both in each pass and on the union.
C19_AllFilterCombinations ==
    (StageDone("Combine") /\ args.fn = "dda_atl") =>
        \A combination \in FilterCombinations :
            \E cfg \in Configurations : Selects(cfg, combination)

\* kernal_args holds only the parameters of the kernel
KernelParametersOnly == "quantile" \notin DOMAIN args.kernal_args

\* C30: with fill_clouds_with_noise enabled, whenever the first-pass stages
\* completed with a kernal_args dictionary that holds only kernel parameters,
\* the MaskUpdate stage completes: the run does not abort between Pass1Mask
\* and Pass2Density because of a missing configuration key.
C30_MaskUpdateCompletes ==
    (BetweenPassesRun /\ args.fill_clouds_with_noise /\ KernelParametersOnly) =>
        /\ StageDone("MaskUpdate")
        /\ ~(pc = "raise" /\ ret.error = "KeyError")

(***************************************************************************)
(* Properties of the DDA_data container.                                    *)
(***************************************************************************)
Constructed == ContainerCalled /\ pc \in {"return", "indexed"}
ConstructionRaised == ContainerCalled /\ pc = "raise"

\* the supplied shapes agree: data_in is (n,m), heights if given is (m,),
\* dem if given is (n,)
ShapesAgree ==
    /\ Ndim(args.data_in) = 2
    /\ args.heights # None => args.heights.shape = << args.data_in.shape[2] >>
    /\ args.dem # None => args.dem.shape = << args.data_in.shape[1] >>

\* C21: constructing a DDA_data container raises an error, and yields no
\* container, whenever data_in is not 2-D, a supplied heights is not 1-D of
\* length m or a supplied dem is not 1-D of length n; it succeeds when all
\* supplied shapes agree.
C21_ConstructionChecksShapes ==
    (ContainerCalled /\ pc # "call") =>
        /\ ShapesAgree => (Constructed /\ "obj" \in DOMAIN ret)
        /\ ~ShapesAgree => (ConstructionRaised /\ ret = [error |-> "ValueError"])

\* a construction refused only for the length of dem
C21_Witness ==
    /\ ConstructionRaised
    /\ Ndim(args.data_in) = 2
    /\ args.heights # None
    /\ args.heights.shape = << args.data_in.shape[2] >>
    /\ args.dem # None
    /\ Ndim(args.dem) = 1
    /\ args.dem.shape[1] # args.data_in.shape[1]

Indexed == ContainerCalled /\ pc = "indexed"

\* C22: obj[batch, key] returns batch_outputs[batch][key] when key is present
\* in that batch's output dictionary and raises KeyError otherwise; obj[key]
\* returns the input field or batch output stored under key.
C22_IndexByBatchAndKey ==
    (Indexed /\ ret.form = "obj[batch, key]" /\ ret.batch < Len(ret.obj.batch_outputs)) =>
        LET out_dict == ret.obj.batch_outputs[ret.batch + 1]
        IN IF ret.key \in DOMAIN out_dict
           THEN ret.outcome = [value |-> out_dict[ret.key]]
           ELSE ret.outcome = [error |-> "KeyError"]

(***************************************************************************)
(* Properties of the hand-written convolution.                              *)
(***************************************************************************)
ConvolveEnded == args.fn = "convolve2d" /\ pc # "call"
ConvolveReturned == args.fn = "convolve2d" /\ pc = "return"

\* scipy's convolve2d(data, kernal, mode='same') with its default boundary
\* 'fill' and fillvalue 0, which is linear in the kernel
ReferenceSame ==
    LET whole == ScipyConvolve2d(args.data, args.kernal.num,
                                 [mode |-> "same", boundary |-> "fill", fillvalue |-> 0])
    IN [i \in DOMAIN args.data |-> [j \in DOMAIN args.data[0] |->
            Frac(whole[i][j], args.kernal.den)]]

ZeroFill == args.boundary = "fill" /\ args.fillvalue = 0

\* C23 as stated: convolve2d(data, kernel) with its default zero-fill boundary
\* returns, for every data and every kernel no larger than the data, an array
\* equal element for element to scipy's convolve2d with mode='same'.
C23_EqualsReferenceSame ==
    (ConvolveEnded /\ ZeroFill) => (pc = "return" /\ ret.conv = ReferenceSame)

\* every product and partial sum fits the dtype of data: the data are
\* floating-point, or the kernel holds whole numbers
SumsFitDtype == args.dtype = "float64" \/ args.kernal.den = 1

\* the same holds for data of a floating dtype or a kernel of whole numbers
\* (in exact arithmetic): the geometry of convolve2d is that of the reference
C23_EqualsReferenceAmended ==
    (ConvolveEnded /\ ZeroFill /\ SumsFitDtype) =>
        (pc = "return" /\ ret.conv = ReferenceSame)

\* a convolution of floating-point data with a kernel of two columns in
\* halves, whose result is not the data and not zero
C23_Witness ==
    /\ ConvolveReturned
    /\ ZeroFill
    /\ args.dtype = "float64"
    /\ args.kernal.den = 2
    /\ Cols(args.kernal.num) = 2
    /\ \E p \in Pixels(args.data) :
          /\ ret.conv[p[1]][p[2]] # Real(args.data[p[1]][p[2]])
          /\ ret.conv[p[1]][p[2]] # Real(0)

\* C29: convolve2d with boundary 'wrap' and with boundary 'symm' returns an
\* (n,m) array for every (n,m) data and every kernel no larger than the data,
\* the padding outside each edge taken from the opposite edge (wrap) or
\* mirroring the rows and columns next to that edge (symm).
C29_WrapAndSymmReturn ==
    (ConvolveEnded /\ args.boundary \in {"wrap", "symm"}) =>
        /\ pc = "return"
        /\ DOMAIN ret.conv = DOMAIN args.data
        /\ \A i \in DOMAIN ret.conv : DOMAIN ret.conv[i] = DOMAIN args.data[0]

(***************************************************************************)
(* Properties of the re-exploration on a checkpoint.                       *)
(***************************************************************************)
Part2Returned == Part2Called /\ pc = "return"

\* the same run made as the first one on the checkpoint as it was produced
FirstRun ==
    dda_eeasm_part2_mpl(args.produced, args.heights, args.threshold_args2,
                        args.min_cluster_size, args.remove_clusters_in_pass)

\* C28: for any sequence of dda_eeasm_part2_mpl runs on the same checkpoint
\* object, the thresholds2, cloud_mask2 and combined mask of a run are those
\* the same run gives as the first one on a freshly produced checkpoint,
\* whatever threshold arguments the earlier runs used.
C28_HistoryIndependent ==
    Part2Returned =>
        /\ ~FirstRun.raises
        /\ \A k \in {"thresholds2", "cloud_mask2", "cloud_mask_combined"} :
              ret.result[k] = FirstRun.result[k]

====
